---------------------------- MODULE Spec2Model ----------------------------
(***************************************************************************)
(* Model of the webb command line client: the colon-delimited note text    *)
(* format (src/src/note.rs), the encrypted sled datastore                  *)
(* (src/src/database.rs) and the execution context that keeps accounts     *)
(* and notes in that datastore (src/src/context.rs).                       *)
(*                                                                         *)
(* Text is a sequence of one-character strings, a byte is a number in      *)
(* 0..255, and a fixed-width unsigned integer (u8, u32, usize) is the      *)
(* big-endian sequence of its bytes, so that the checked arithmetic of     *)
(* the integer parsers keeps the width of the type.                        *)
(***************************************************************************)
EXTENDS Integers, Sequences, FiniteSets, TLC

VARIABLES
    npc,        \* note format: "note" | "text" | "serialized" | "parsed"
    note,       \* note format: the Note handed to to_string
    text,       \* note format: the text handed to from_str
    parsed,     \* note format: the result of from_str
    sled,       \* datastore: the records of the sled database, by key
    secret,     \* datastore: Option<SecretString>, the passphrase
    origin,     \* history: how the record of each key was last stored
    dpc,        \* datastore: the last call of the datastore
    dkey,       \* datastore: the key of the last call
    dres,       \* datastore: the result of the last call
    accounts,   \* context: Vec<AccountRaw>, as loaded by new
    notes,      \* context: Vec<NoteRaw>, as loaded by new
    cpc,        \* context: the last call of the context
    cres,       \* context: the result of the last call
    uuids,      \* context: the number of uuids generated so far
    handed,     \* history: the seeds and note secrets handed to the context
    failed,     \* history: whether a call of the context returned an error
    steps,      \* the number of calls that changed the datastore so far
    ledger,     \* ledger: the leaves the external ledger holds for the tree
    fetch,      \* fetch_tree_leaves: its position and its local variables
    mixers,     \* mixer: the Mixer instances, by mixer id
    mres,       \* mixer: the last call of a Mixer and what it returned
    chain,      \* ledger: its best block, the tree of the mixer, the cached roots
    cmd,        \* withdraw command: its position and its local variables
    hist,       \* history: the deposits accepted, the notes marked, the withdrawals
    main        \* main: its position, its options and what it has done

noteVars == <<npc, note, text, parsed>>

dbVars == <<sled, secret, origin, dpc, dkey, dres>>

ctxVars == <<accounts, notes, cpc, cres, uuids, handed, failed>>

fetchVars == <<ledger, fetch>>

mixerVars == <<mixers, mres>>

chainVars == <<chain, cmd, hist>>

mainVars == <<main>>

cmdVars == <<fetchVars, mixerVars, chainVars, mainVars>>

vars == <<noteVars, dbVars, ctxVars, cmdVars, steps>>

(***************************************************************************)
(* Sequences and characters                                                *)
(***************************************************************************)
Rep(c, n) == [i \in 1..n |-> c]

StartsWithAt(s, i, p) ==
    /\ i + Len(p) - 1 <= Len(s)
    /\ \A j \in 1..Len(p) : s[i + j - 1] = p[j]

Contains(s, p) == \E i \in 1..(Len(s) - Len(p) + 1) : StartsWithAt(s, i, p)

DecDigits == <<"0", "1", "2", "3", "4", "5", "6", "7", "8", "9">>

HexLower == DecDigits \o <<"a", "b", "c", "d", "e", "f">>

HexUpper == DecDigits \o <<"A", "B", "C", "D", "E", "F">>

IsDecDigit(c) == \E d \in 1..10 : DecDigits[d] = c

DecVal(c) == (CHOOSE d \in 1..10 : DecDigits[d] = c) - 1

IsHexDigit(c) == \E d \in 1..16 : HexLower[d] = c \/ HexUpper[d] = c

HexVal(c) == (CHOOSE d \in 1..16 : HexLower[d] = c \/ HexUpper[d] = c) - 1

(***************************************************************************)
(* Fixed-width unsigned integers as big-endian bytes                       *)
(***************************************************************************)
U8Bytes == 1

U32Bytes == 4

UsizeBytes == 8

UZero(w) == Rep(0, w)

UMax(w) == Rep(255, w)

\* limbs * m + a, with the carry out of the most significant byte
RECURSIVE MulAddFrom(_, _, _, _)
MulAddFrom(limbs, i, m, carry) ==
    IF i = 0 THEN [value |-> limbs, carry |-> carry]
    ELSE LET t == limbs[i] * m + carry
         IN  MulAddFrom([limbs EXCEPT ![i] = t % 256], i - 1, m, t \div 256)

MulAdd(limbs, m, a) == MulAddFrom(limbs, Len(limbs), m, a)

\* limbs \div 10 and limbs % 10
RECURSIVE DivModFrom(_, _, _)
DivModFrom(limbs, i, rem) ==
    IF i > Len(limbs) THEN [quot |-> limbs, rem |-> rem]
    ELSE LET t == rem * 256 + limbs[i]
         IN  DivModFrom([limbs EXCEPT ![i] = t \div 10], i + 1, t % 10)

DivMod10(limbs) == DivModFrom(limbs, 1, 0)

UOf(n, w) == MulAdd(UZero(w), 0, n).value

\* <uN as Display>::fmt: decimal digits, no sign, no leading zero
RECURSIVE UDigits(_, _)
UDigits(limbs, acc) ==
    IF limbs = UZero(Len(limbs)) THEN acc
    ELSE LET qr == DivMod10(limbs)
         IN  UDigits(qr.quot, <<DecDigits[qr.rem + 1]>> \o acc)

UToString(limbs) ==
    IF limbs = UZero(Len(limbs)) THEN <<"0">> ELSE UDigits(limbs, <<>>)

\* <uN as FromStr>::from_str: an optional '+', then one or more decimal
\* digits, accumulated with checked_mul(10) and checked_add(digit)
RECURSIVE UAccumulate(_, _, _)
UAccumulate(s, i, acc) ==
    IF i > Len(s) THEN [ok |-> TRUE, value |-> acc]
    ELSE IF ~IsDecDigit(s[i]) THEN [ok |-> FALSE, value |-> acc]
    ELSE LET r == MulAdd(acc, 10, DecVal(s[i]))
         IN  IF r.carry # 0 THEN [ok |-> FALSE, value |-> acc]
             ELSE UAccumulate(s, i + 1, r.value)

UFromStr(s, w) ==
    LET digits == IF s # <<>> /\ Head(s) = "+" THEN Tail(s) ELSE s
    IN  IF digits = <<>> THEN [ok |-> FALSE, value |-> UZero(w)]
        ELSE UAccumulate(digits, 1, UZero(w))

(***************************************************************************)
(* hex::encode, hex::decode, str::split, str::replace, join                *)
(***************************************************************************)
HexEncode(bytes) ==
    [i \in 1..(2 * Len(bytes)) |->
        LET b == bytes[(i + 1) \div 2]
        IN  IF i % 2 = 1 THEN HexLower[(b \div 16) + 1]
            ELSE HexLower[(b % 16) + 1]]

HexDecode(s) ==
    IF Len(s) % 2 # 0 THEN [ok |-> FALSE, bytes |-> <<>>]
    ELSE IF \E i \in 1..Len(s) : ~IsHexDigit(s[i])
    THEN [ok |-> FALSE, bytes |-> <<>>]
    ELSE [ok |-> TRUE,
          bytes |-> [i \in 1..(Len(s) \div 2) |->
                        16 * HexVal(s[2 * i - 1]) + HexVal(s[2 * i])]]

\* the first index at or after i where pat occurs in s, 0 when there is none
NextMatch(s, pat, i) ==
    LET M == {j \in i..(Len(s) - Len(pat) + 1) : StartsWithAt(s, j, pat)}
    IN  IF M = {} THEN 0 ELSE CHOOSE j \in M : \A k \in M : j <= k

\* str::split(sep): the text between the matches of sep, empty texts kept
RECURSIVE SplitFrom(_, _, _, _)
SplitFrom(s, sep, i, acc) ==
    LET m == NextMatch(s, <<sep>>, i)
    IN  IF m = 0 THEN Append(acc, SubSeq(s, i, Len(s)))
        ELSE SplitFrom(s, sep, m + 1, Append(acc, SubSeq(s, i, m - 1)))

Split(s, sep) == SplitFrom(s, sep, 1, <<>>)

RECURSIVE Join(_, _)
Join(parts, sep) ==
    IF parts = <<>> THEN <<>>
    ELSE IF Len(parts) = 1 THEN parts[1]
    ELSE parts[1] \o <<sep>> \o Join(Tail(parts), sep)

\* str::replace(pat, ""): every non-overlapping match, left to right
RECURSIVE RemoveAllFrom(_, _, _, _)
RemoveAllFrom(s, pat, i, acc) ==
    LET m == NextMatch(s, pat, i)
    IN  IF m = 0 THEN acc \o SubSeq(s, i, Len(s))
        ELSE RemoveAllFrom(s, pat, m + Len(pat), acc \o SubSeq(s, i, m - 1))

RemoveAll(s, pat) == RemoveAllFrom(s, pat, 1, <<>>)

(***************************************************************************)
(* src/src/note.rs: the tagged fields of a Note and their text             *)
(***************************************************************************)
NoteVersions == {"V1"}

Backends == {"Arkworks", "Circom"}

Curves == {"Bls381", "Bn254"}

HashFunctions == {"Poseidon", "MiMCTornado"}

NotePrefixes == {"Mixer", "Bridge", "Anchor", "VAnchor"}

NoteVersionToString(v) == CASE v = "V1" -> <<"v", "1">>

BackendToString(b) ==
    CASE b = "Arkworks" -> <<"A", "r", "k", "w", "o", "r", "k", "s">>
      [] b = "Circom" -> <<"C", "i", "r", "c", "o", "m">>

CurveToString(c) ==
    CASE c = "Bls381" -> <<"B", "l", "s", "3", "8", "1">>
      [] c = "Bn254" -> <<"B", "n", "2", "5", "4">>

HashFunctionToString(h) ==
    CASE h = "Poseidon" -> <<"P", "o", "s", "e", "i", "d", "o", "n">>
      [] h = "MiMCTornado" -> <<"M", "i", "M", "C", "T", "o", "r", "n", "a", "d", "o">>

NotePrefixToString(p) ==
    CASE p = "Mixer" -> <<"w", "e", "b", "b", ".", "m", "i", "x", "e", "r">>
      [] p = "Bridge" -> <<"w", "e", "b", "b", ".", "b", "r", "i", "d", "g", "e">>
      [] p = "Anchor" -> <<"w", "e", "b", "b", ".", "a", "n", "c", "h", "o", "r">>
      [] p = "VAnchor" -> <<"w", "e", "b", "b", ".", "v", "a", "n", "c", "h", "o", "r">>

\* The result of a from_str of one tagged field: the variant, or the error
\* variant of src/src/error.rs carrying the text that was not recognised.
TagOk(v) == [ok |-> TRUE, value |-> v, err |-> "", text |-> <<>>]

TagErr(e, s) == [ok |-> FALSE, value |-> "", err |-> e, text |-> s]

NoteVersionFromStr(s) ==
    IF s = <<"v", "1">> THEN TagOk("V1")
    ELSE TagErr("UnsupportedNoteVersion", s)

BackendFromStr(s) ==
    IF s = <<"A", "r", "k", "w", "o", "r", "k", "s">> THEN TagOk("Arkworks")
    ELSE IF s = <<"C", "i", "r", "c", "o", "m">> THEN TagOk("Circom")
    ELSE TagErr("UnsupportedNoteBackend", s)

\* CurveFromStr with the error variant of the backend field
CurveFromStr_BackendError(s) ==
    IF s = <<"B", "l", "s", "3", "8", "1">> THEN TagOk("Bls381")
    ELSE IF s = <<"B", "n", "2", "5", "4">> THEN TagOk("Bn254")
    ELSE TagErr("UnsupportedNoteBackend", s)

CurveFromStr(s) ==
    IF s = <<"B", "l", "s", "3", "8", "1">> THEN TagOk("Bls381")
    ELSE IF s = <<"B", "n", "2", "5", "4">> THEN TagOk("Bn254")
    ELSE TagErr("UnsupportedNoteCurve", s)

NotePrefixFromStr(s) ==
    IF s = <<"w", "e", "b", "b", ".", "m", "i", "x", "e", "r">> THEN TagOk("Mixer")
    ELSE IF s = <<"w", "e", "b", "b", ".", "b", "r", "i", "d", "g", "e">> THEN TagOk("Bridge")
    ELSE IF s = <<"w", "e", "b", "b", ".", "a", "n", "c", "h", "o", "r">> THEN TagOk("Anchor")
    ELSE IF s = <<"w", "e", "b", "b", ".", "v", "a", "n", "c", "h", "o", "r">> THEN TagOk("VAnchor")
    ELSE TagErr("UnsupportedNotePrefix", s)

HashFunctionFromStr(s) ==
    IF s = <<"P", "o", "s", "e", "i", "d", "o", "n">> THEN TagOk("Poseidon")
    ELSE IF s = <<"M", "i", "M", "C", "T", "o", "r", "n", "a", "d", "o">> THEN TagOk("MiMCTornado")
    ELSE TagErr("UnsupportedNoteHashFunction", s)

(***************************************************************************)
(* src/src/note.rs: Note, its Display and its FromStr                      *)
(***************************************************************************)
NoteFieldCount == 13

SecretLen == 64

Some(x) == <<x>>

None == <<>>

\* Result<Note, Error>, or the panic of an unwrap() on an Err
NoteOk(n) == [kind |-> "Ok", note |-> Some(n), err |-> "", text |-> <<>>]

NoteErr(e, s) == [kind |-> "Err", note |-> None, err |-> e, text |-> s]

NotePanic == [kind |-> "Panic", note |-> None, err |-> "", text |-> <<>>]

NoResult == [kind |-> "None", note |-> None, err |-> "", text |-> <<>>]

NoteToString(n) ==
    LET secrets == HexEncode(n.secret)
        parts == << NotePrefixToString(n.prefix),
                    NoteVersionToString(n.version),
                    UToString(n.target_chain_id),
                    UToString(n.source_chain_id),
                    BackendToString(n.backend),
                    CurveToString(n.curve),
                    HashFunctionToString(n.hash_function),
                    n.token_symbol,
                    UToString(n.denomination),
                    n.amount,
                    UToString(n.exponentiation),
                    UToString(n.width),
                    secrets >>
    IN  Join(parts, ":")

\* InvalidNoteFormat that lets surplus fields through
InvalidNoteFormat_Short(parts) == Len(parts) < NoteFieldCount

\* parts.len() != 13
InvalidNoteFormat(parts) == Len(parts) # NoteFieldCount

\* SecretFromHex that keeps the first 64 bytes of a longer secret
SecretFromHex_Truncating(note_val) ==
    LET decoded == HexDecode(RemoveAll(note_val, <<"0", "x">>))
    IN  IF ~decoded.ok THEN [ok |-> FALSE, err |-> "Hex", bytes |-> <<>>]
        ELSE IF Len(decoded.bytes) < SecretLen
        THEN [ok |-> FALSE, err |-> "InvalidNoteSecrets", bytes |-> <<>>]
        ELSE [ok |-> TRUE, err |-> "", bytes |-> SubSeq(decoded.bytes, 1, SecretLen)]

\* hex::decode(&note_val.replace("0x", ""))?.try_into().map_err(..)?
SecretFromHex(note_val) ==
    LET decoded == HexDecode(RemoveAll(note_val, <<"0", "x">>))
    IN  IF ~decoded.ok THEN [ok |-> FALSE, err |-> "Hex", bytes |-> <<>>]
        ELSE IF Len(decoded.bytes) # SecretLen
        THEN [ok |-> FALSE, err |-> "InvalidNoteSecrets", bytes |-> <<>>]
        ELSE [ok |-> TRUE, err |-> "", bytes |-> decoded.bytes]

NoteFromStr(s) ==
    LET parts == Split(s, ":")
        prefix == NotePrefixFromStr(parts[1])
        version == NoteVersionFromStr(parts[2])
        target_chain_id == UFromStr(parts[3], U32Bytes)
        source_chain_id == UFromStr(parts[4], U32Bytes)
        backend == BackendFromStr(parts[5])
        curve == CurveFromStr(parts[6])
        hash_function == HashFunctionFromStr(parts[7])
        token_symbol == parts[8]
        denomination == UFromStr(parts[9], U8Bytes)
        amount == parts[10]
        exponentiation == UFromStr(parts[11], U8Bytes)
        width == UFromStr(parts[12], UsizeBytes)
        note_secret == SecretFromHex(parts[13])
    IN  IF InvalidNoteFormat(parts) THEN NoteErr("InvalidNoteFormat", <<>>)
        ELSE IF ~prefix.ok THEN NoteErr(prefix.err, prefix.text)
        ELSE IF ~version.ok THEN NoteErr(version.err, version.text)
        ELSE IF ~target_chain_id.ok THEN NoteErr("InvalidChainId", <<>>)
        ELSE IF ~source_chain_id.ok THEN NoteErr("InvalidChainId", <<>>)
        ELSE IF ~backend.ok THEN NoteErr(backend.err, backend.text)
        ELSE IF ~curve.ok THEN NoteErr(curve.err, curve.text)
        ELSE IF ~hash_function.ok
        THEN NoteErr(hash_function.err, hash_function.text)
        ELSE IF ~denomination.ok THEN NotePanic
        ELSE IF ~exponentiation.ok THEN NotePanic
        ELSE IF ~width.ok THEN NotePanic
        ELSE IF ~note_secret.ok THEN NoteErr(note_secret.err, <<>>)
        ELSE NoteOk([prefix |-> prefix.value,
                     version |-> version.value,
                     target_chain_id |-> target_chain_id.value,
                     source_chain_id |-> source_chain_id.value,
                     token_symbol |-> token_symbol,
                     curve |-> curve.value,
                     hash_function |-> hash_function.value,
                     backend |-> backend.value,
                     denomination |-> denomination.value,
                     amount |-> amount,
                     exponentiation |-> exponentiation.value,
                     width |-> width.value,
                     secret |-> note_secret.bytes])

(***************************************************************************)
(* src/src/database.rs: SledDatastore.                                     *)
(*                                                                         *)
(* A record is a sequence of cells.  <<"b", n>> is the byte n.  The output *)
(* of XChaCha20Poly1305 is symbolic: <<"c", key, nonce, i, p>> is byte i   *)
(* of the ciphertext of a plaintext whose byte i is p, and                 *)
(* <<"t", key, nonce, plaintext, j>> is byte j of the Poly1305 tag.        *)
(* Decryption succeeds on exactly the cells encryption produced under the  *)
(* same key and nonce (an ideal AEAD), and SHA-256 is injective.           *)
(***************************************************************************)
NonceLen == 24

TagLen == 16

Plain(bytes) == [i \in 1..Len(bytes) |-> <<"b", bytes[i]>>]

\* utils::sha256(secret)
Sha256(passphrase) == <<"sha256", passphrase>>

\* aead.encrypt(nonce, value)
Encrypt(key, nonce, value) ==
    [i \in 1..(Len(value) + TagLen) |->
        IF i <= Len(value) THEN <<"c", key, nonce, i, value[i]>>
        ELSE <<"t", key, nonce, value, i - Len(value)>>]

DecryptOk(value) == [ok |-> TRUE, plaintext |-> value]

DecryptErr == [ok |-> FALSE, plaintext |-> <<>>]

\* Decrypt without the check of the authentication tag: the plaintext of
\* the record is returned whatever the key
Decrypt_Unauthenticated(key, nonce, contents) ==
    IF Len(contents) < TagLen THEN DecryptErr
    ELSE LET tag == contents[Len(contents) - TagLen + 1]
         IN  IF tag[1] # "t" THEN DecryptErr
             ELSE DecryptOk(tag[4])

\* aead.decrypt(nonce, contents)
Decrypt(key, nonce, contents) ==
    IF Len(contents) < TagLen THEN DecryptErr
    ELSE LET tag == contents[Len(contents) - TagLen + 1]
         IN  IF tag[1] # "t" THEN DecryptErr
             ELSE IF tag[2] = key /\ tag[3] = nonce
                     /\ contents = Encrypt(key, nonce, tag[4])
             THEN DecryptOk(tag[4])
             ELSE DecryptErr

\* anyhow::Result<Option<IVec>>, or the panic of a slice out of range
DbOk(opt) == [kind |-> "Ok", value |-> opt, err |-> ""]

DbErr(e) == [kind |-> "Err", value |-> None, err |-> e]

DbPanic == [kind |-> "Panic", value |-> None, err |-> ""]

NoDbResult == [kind |-> "None", value |-> None, err |-> ""]

\* self.sled.get(key)
SledGet(db, key) == IF key \in DOMAIN db THEN Some(db[key]) ELSE None

\* self.sled.insert(key, value)
SledInsert(db, key, value) ==
    [k \in DOMAIN db \cup {key} |-> IF k = key THEN value ELSE db[k]]

\* self.sled.remove(key)
SledRemove(db, key) == [k \in DOMAIN db \ {key} |-> db[k]]

\* &data[0..24] and &data[24..]
NonceSliceInRange(data) == NonceLen <= Len(data)

\* SledDatastore::read
DbRead(db, pass, key) ==
    IF pass = None THEN DbErr("password must be provided for decryption!")
    ELSE LET deckey_hash == Sha256(pass[1])
             encrypted == SledGet(db, key)
         IN  IF encrypted = None THEN DbOk(None)
             ELSE LET data == encrypted[1]
                      nonce_bytes == SubSeq(data, 1, NonceLen)
                      contents == SubSeq(data, NonceLen + 1, Len(data))
                      plaintext == Decrypt(deckey_hash, nonce_bytes, contents)
                  IN  IF ~NonceSliceInRange(data) THEN DbPanic
                      ELSE IF ~plaintext.ok THEN DbErr("data decryption!")
                      ELSE DbOk(Some(plaintext.plaintext))

\* SledDatastore::write: the result and the database after the call
DbWrite(db, pass, key, value, nonce_bytes) ==
    IF pass = None
    THEN [res |-> DbErr("password must be provided for encryption"), db |-> db]
    ELSE LET enckey_hash == Sha256(pass[1])
             nonce == Plain(nonce_bytes)
             buffer == nonce \o Encrypt(enckey_hash, nonce, value)
         IN  [res |-> DbOk(SledGet(db, key)),
              db |-> SledInsert(db, key, buffer)]

\* SledDatastore::read_plaintext
DbReadPlaintext(db, key) == DbOk(SledGet(db, key))

\* SledDatastore::write_plaintext
DbWritePlaintext(db, key, value) ==
    [res |-> DbOk(SledGet(db, key)), db |-> SledInsert(db, key, Plain(value))]

\* SledDatastore::remove
DbRemove(db, key) == [res |-> DbOk(SledGet(db, key)), db |-> SledRemove(db, key)]

\* History of a key: the call that stored its record, or what altered it
Origin(how, pass, value) == [how |-> how, pass |-> pass, value |-> value]

\* SledDatastore::new and ExecutionContext::new over an empty database
DbStart ==
    /\ sled = << >>
    /\ secret = None
    /\ origin = << >>
    /\ dpc = "new"
    /\ dkey = <<>>
    /\ dres = NoDbResult
    /\ accounts = <<>>
    /\ notes = <<>>
    /\ cpc = "new"
    /\ cres = [ok |-> TRUE, err |-> "", value |-> <<>>]
    /\ uuids = 0
    /\ handed = {}
    /\ failed = FALSE

(***************************************************************************)
(* src/src/raw.rs: the prost (protocol buffers) encoding of the plaintext  *)
(* records.  A string field is its tag byte, the varint of its length and  *)
(* its UTF-8 bytes; a bool field is its tag byte and 1; a field that has   *)
(* the default value ("" or false) is left out, except in a repeated field.*)
(***************************************************************************)
\* the printable ASCII characters, 0x20 to 0x7e (the double quote, the
\* backslash and the backtick are written by name)
Ascii ==
    << " ", "!", "QUOTE", "#", "$", "%", "&", "'", "(", ")", "*", "+",
       ",", "-", ".", "/", "0", "1", "2", "3", "4", "5", "6", "7",
       "8", "9", ":", ";", "<", "=", ">", "?", "@", "A", "B", "C",
       "D", "E", "F", "G", "H", "I", "J", "K", "L", "M", "N", "O",
       "P", "Q", "R", "S", "T", "U", "V", "W", "X", "Y", "Z", "[",
       "BACKSLASH", "]", "^", "_", "BACKTICK", "a", "b", "c", "d", "e", "f", "g",
       "h", "i", "j", "k", "l", "m", "n", "o", "p", "q", "r", "s",
       "t", "u", "v", "w", "x", "y", "z", "{", "|", "}", "~" >>

\* the position of each character in the table
RECURSIVE AsciiIndexFrom(_)
AsciiIndexFrom(i) ==
    IF i = Len(Ascii) THEN Ascii[i] :> i
    ELSE (Ascii[i] :> i) @@ AsciiIndexFrom(i + 1)

AsciiIndex == AsciiIndexFrom(1)

\* the byte of a character: the first of the table is 0x20
Code(c) == 31 + AsciiIndex[c]

IsAsciiCode(b) == b > 31 /\ b <= 31 + Len(Ascii)

Utf8(s) == [i \in 1..Len(s) |-> Code(s[i])]

FromUtf8(bytes) == [i \in 1..Len(bytes) |-> Ascii[bytes[i] - 31]]

\* the bytes of a record of plain bytes; 256 stands for a byte that only a
\* decryption could give
Bytes(cells) ==
    [i \in 1..Len(cells) |-> IF cells[i][1] = "b" THEN cells[i][2] ELSE 256]

RECURSIVE Varint(_)
Varint(n) ==
    IF n < 128 THEN <<n>> ELSE <<128 + (n % 128)>> \o Varint(n \div 128)

WireVarint == 0

WireLengthDelimited == 2

EncodeString(tag, s) ==
    <<8 * tag + WireLengthDelimited>> \o Varint(Len(s)) \o Utf8(s)

EncodeStringField(tag, s) == IF s = <<>> THEN <<>> ELSE EncodeString(tag, s)

EncodeBoolField(tag, b) == IF b THEN <<8 * tag + WireVarint, 1>> ELSE <<>>

\* the varint that starts at byte i: its value and the index after it
RECURSIVE ReadVarint(_, _, _, _)
ReadVarint(bytes, i, shift, acc) ==
    IF i > Len(bytes) \/ bytes[i] > 255 THEN [ok |-> FALSE, value |-> 0, next |-> i]
    ELSE IF bytes[i] >= 128
    THEN ReadVarint(bytes, i + 1, shift * 128, acc + (bytes[i] - 128) * shift)
    ELSE [ok |-> TRUE, value |-> acc + bytes[i] * shift, next |-> i + 1]

\* the fields of a message from byte i on, in order: <<tag, wire, value>>;
\* key is the varint of the tag and the wire type, len the varint after it
RECURSIVE ReadFields(_, _, _)
ReadFieldBody(bytes, tag, wire, len, acc) ==
    IF ~len.ok THEN [ok |-> FALSE, fields |-> acc]
    ELSE IF wire = WireVarint
    THEN ReadFields(bytes, len.next, Append(acc, <<tag, wire, <<len.value>> >>))
    ELSE IF wire = WireLengthDelimited /\ len.next + len.value - 1 <= Len(bytes)
    THEN ReadFields(bytes, len.next + len.value,
                    Append(acc, <<tag, wire,
                                  SubSeq(bytes, len.next,
                                         len.next + len.value - 1)>>))
    ELSE [ok |-> FALSE, fields |-> acc]

ReadField(bytes, key, acc) ==
    IF ~key.ok \/ key.value \div 8 = 0 THEN [ok |-> FALSE, fields |-> acc]
    ELSE ReadFieldBody(bytes, key.value \div 8, key.value % 8,
                       ReadVarint(bytes, key.next, 1, 0), acc)

ReadFields(bytes, i, acc) ==
    IF i > Len(bytes) THEN [ok |-> TRUE, fields |-> acc]
    ELSE ReadField(bytes, ReadVarint(bytes, i, 1, 0), acc)

\* the last string field with the tag, "" when there is none
StringField(fields, tag) ==
    LET I == {i \in 1..Len(fields) : fields[i][1] = tag}
    IN  IF I = {} THEN <<>>
        ELSE FromUtf8(fields[CHOOSE i \in I : \A j \in I : j <= i][3])

\* the last bool field with the tag, false when there is none
BoolField(fields, tag) ==
    LET I == {i \in 1..Len(fields) : fields[i][1] = tag}
    IN  IF I = {} THEN FALSE
        ELSE fields[CHOOSE i \in I : \A j \in I : j <= i][3][1] # 0

\* every string field with the tag, in order
RECURSIVE RepeatedStringField(_, _)
RepeatedStringField(fields, tag) ==
    IF fields = <<>> THEN <<>>
    ELSE IF Head(fields)[1] = tag
    THEN <<FromUtf8(Head(fields)[3])>> \o RepeatedStringField(Tail(fields), tag)
    ELSE RepeatedStringField(Tail(fields), tag)

\* the fields have the wire types of the message and valid text
FieldsWellTyped(fields, stringTags, boolTags) ==
    \A i \in 1..Len(fields) :
        /\ fields[i][1] \in stringTags =>
              /\ fields[i][2] = WireLengthDelimited
              /\ \A j \in 1..Len(fields[i][3]) : IsAsciiCode(fields[i][3][j])
        /\ fields[i][1] \in boolTags => fields[i][2] = WireVarint

\* prost::Message::encode(&AccountRaw)
EncodeAccountRaw(a) ==
    EncodeStringField(1, a.uuid) \o EncodeStringField(2, a.alias)
        \o EncodeStringField(3, a.address) \o EncodeBoolField(4, a.is_default)

\* <AccountRaw as prost::Message>::decode, r the fields read
AccountRawOf(r) ==
    IF r.ok /\ FieldsWellTyped(r.fields, {1, 2, 3}, {4})
    THEN [ok |-> TRUE,
          value |-> [uuid |-> StringField(r.fields, 1),
                     alias |-> StringField(r.fields, 2),
                     address |-> StringField(r.fields, 3),
                     is_default |-> BoolField(r.fields, 4)]]
    ELSE [ok |-> FALSE,
          value |-> [uuid |-> <<>>, alias |-> <<>>, address |-> <<>>,
                     is_default |-> FALSE]]

DecodeAccountRaw(bytes) == AccountRawOf(ReadFields(bytes, 1, <<>>))

\* prost::Message::encode(&NoteRaw)
EncodeNoteRaw(n) ==
    EncodeStringField(1, n.uuid) \o EncodeStringField(2, n.alias)
        \o EncodeBoolField(3, n.used) \o EncodeStringField(4, n.value)

\* <NoteRaw as prost::Message>::decode, r the fields read
NoteRawOf(r) ==
    IF r.ok /\ FieldsWellTyped(r.fields, {1, 2, 4}, {3})
    THEN [ok |-> TRUE,
          value |-> [uuid |-> StringField(r.fields, 1),
                     alias |-> StringField(r.fields, 2),
                     used |-> BoolField(r.fields, 3),
                     value |-> StringField(r.fields, 4)]]
    ELSE [ok |-> FALSE,
          value |-> [uuid |-> <<>>, alias |-> <<>>, used |-> FALSE,
                     value |-> <<>>]]

DecodeNoteRaw(bytes) == NoteRawOf(ReadFields(bytes, 1, <<>>))

\* prost::Message::encode(&AccountsIds) and encode(&NotesIds)
RECURSIVE EncodeIds(_)
EncodeIds(ids) ==
    IF ids = <<>> THEN <<>>
    ELSE EncodeString(1, Head(ids)) \o EncodeIds(Tail(ids))

\* <AccountsIds as prost::Message>::decode and <NotesIds ..>::decode, r the
\* fields read
IdsOf(r) ==
    IF r.ok /\ FieldsWellTyped(r.fields, {1}, {})
    THEN [ok |-> TRUE, ids |-> RepeatedStringField(r.fields, 1)]
    ELSE [ok |-> FALSE, ids |-> <<>>]

DecodeIds(bytes) == IdsOf(ReadFields(bytes, 1, <<>>))

(***************************************************************************)
(* src/src/context.rs: ExecutionContext over the datastore.                *)
(*                                                                         *)
(* A store is the database with the history of its keys.  Each operator    *)
(* below is one method: it gives the result of the call and the store      *)
(* after it, with the writes made before an error return kept.             *)
(***************************************************************************)
AccountIdsKey == <<"a", "c", "c", "o", "u", "n", "t", "_", "i", "d", "s">>

NotesIdsKey == <<"n", "o", "t", "e", "s", "_", "i", "d", "s">>

SeedSuffix == <<"_", "s", "e", "e", "d">>

SecretSuffix == <<"_", "s", "e", "c", "r", "e", "t">>

SeedLen == 32

Store(db, org) == [sled |-> db, origin |-> org]

StWritePlaintext(st, k, v) ==
    Store(DbWritePlaintext(st.sled, k, v).db,
          SledInsert(st.origin, k, Origin("write_plaintext", None, v)))

StWrite(st, pass, k, v, nonce) ==
    LET w == DbWrite(st.sled, pass, k, v, nonce)
    IN  [res |-> w.res,
         st |-> IF w.res.kind = "Ok"
                THEN Store(w.db, SledInsert(st.origin, k, Origin("write", pass, v)))
                ELSE st]

StRemove(st, k) == Store(DbRemove(st.sled, k).db, SledRemove(st.origin, k))

\* anyhow::Result of a method of the context
CtxOk(v, st) == [ok |-> TRUE, err |-> "", value |-> v, st |-> st]

CtxErr(e, st) == [ok |-> FALSE, err |-> e, value |-> <<>>, st |-> st]

\* Zeroize that leaves the secret of the note as it is
Zeroize_Skipped(n) == n

\* Zeroize that resets the texts of the note with its secret
Zeroize_Clearing(n) ==
    [n EXCEPT !.secret = Rep(0, SecretLen), !.token_symbol = <<>>, !.amount = <<>>]

\* impl Zeroize for Note
Zeroize(n) == [n EXCEPT !.secret = Rep(0, SecretLen)]

\* the index decoded: push the uuid, write the index, return value
PushDecoded(st, ids_key, decoded, uuid, value) ==
    IF ~decoded.ok THEN CtxErr("failed to decode Protobuf message", st)
    ELSE CtxOk(value,
               StWritePlaintext(st, ids_key, EncodeIds(Append(decoded.ids, uuid))))

\* read the index, push the uuid, write the index, return value
PushId(st, ids_key, uuid, value) ==
    IF ids_key \notin DOMAIN st.sled
    THEN CtxOk(value, StWritePlaintext(st, ids_key, EncodeIds(<<uuid>>)))
    ELSE PushDecoded(st, ids_key,
                     DecodeIds(Bytes(DbReadPlaintext(st.sled, ids_key).value[1])),
                     uuid, value)

\* the index written whether the encrypted write succeeded or not
PushAfterWrite_IgnoringError(w, st1, ids_key, uuid, value) ==
    PushId(w.st, ids_key, uuid, value)

\* w is the result of self.db.write(key, secret) over the store st1: the
\* error of the write, or the index
PushAfterWrite(w, st1, ids_key, uuid, value) ==
    IF w.res.kind # "Ok" THEN CtxErr(w.res.err, st1)
    ELSE PushId(w.st, ids_key, uuid, value)

\* st1 is the store with the plaintext record of uuid written: the
\* encrypted record, then the index
SaveSecret(st1, pass, uuid, suffix, secret_bytes, nonce, ids_key, value) ==
    PushAfterWrite(StWrite(st1, pass, uuid \o suffix, secret_bytes, nonce),
                   st1, ids_key, uuid, value)

\* ExecutionContext::generate_account and ExecutionContext::import_account
\* from the AccountRaw on: acct is the account of account::generate or
\* account::restore, loaded the accounts held in memory
SaveAccount(st, pass, loaded, alias, uuid, acct, nonce) ==
    SaveSecret(StWritePlaintext(st, uuid,
                                EncodeAccountRaw([alias |-> alias,
                                                  address |-> acct.address,
                                                  uuid |-> uuid,
                                                  is_default |-> loaded = <<>>])),
               pass, uuid, SeedSuffix, acct.seed, nonce,
               AccountIdsKey, acct.address)

\* ExecutionContext::import_note
ImportNote(st, pass, alias, n, uuid, nonce) ==
    SaveSecret(StWritePlaintext(st, uuid,
                                EncodeNoteRaw([alias |-> alias,
                                               value |-> NoteToString(Zeroize(n)),
                                               uuid |-> uuid,
                                               used |-> FALSE])),
               pass, uuid, SecretSuffix, n.secret, nonce,
               NotesIdsKey, uuid)

\* self.import_note(alias, v)?; Ok(())
Unit(r) == IF r.ok THEN CtxOk(<<>>, r.st) ELSE r

\* ExecutionContext::generate_note: generated is the Result of
\* mixer::generate_secrets
GenerateNote(st, pass, alias, asset_name, deposit_size, denomination, chain_id, generated, uuid, nonce) ==
    IF ~generated.ok THEN CtxErr("generate_secrets", st)
    ELSE Unit(ImportNote(st, pass, alias,
                         [prefix |-> "Mixer",
                          version |-> "V1",
                          target_chain_id |-> chain_id,
                          source_chain_id |-> chain_id,
                          backend |-> "Circom",
                          hash_function |-> "Poseidon",
                          curve |-> "Bn254",
                          exponentiation |-> UOf(5, U8Bytes),
                          width |-> UOf(5, UsizeBytes),
                          token_symbol |-> asset_name,
                          amount |-> deposit_size,
                          denomination |-> denomination,
                          secret |-> generated.secret],
                         uuid, nonce))

\* the metadata decoded and written back as it was
MarkDecoded_Unset(st, uuid, decoded) ==
    IF ~decoded.ok THEN CtxErr("failed to decode Protobuf message", st)
    ELSE CtxOk(<<>>, StWritePlaintext(st, uuid, EncodeNoteRaw(decoded.value)))

\* the metadata decoded: set the flag, write the record
MarkDecoded(st, uuid, decoded) ==
    IF ~decoded.ok THEN CtxErr("failed to decode Protobuf message", st)
    ELSE CtxOk(<<>>,
               StWritePlaintext(st, uuid,
                                EncodeNoteRaw([decoded.value EXCEPT !.used = TRUE])))

\* ExecutionContext::mark_note_as_used
MarkNoteAsUsed(st, uuid) ==
    IF uuid \notin DOMAIN st.sled THEN CtxErr("reading note metadata", st)
    ELSE MarkDecoded(st, uuid,
                     DecodeNoteRaw(Bytes(DbReadPlaintext(st.sled, uuid).value[1])))

\* ExecutionContext::forget_note
ForgetNote(st, uuid) ==
    CtxOk(<<>>, StRemove(StRemove(st, uuid), uuid \o SecretSuffix))

\* the records of the listed ids that exist, in the order of the index
RECURSIVE LoadRecords(_, _, _)
LoadRecords(db, ids, acc) ==
    IF ids = <<>> THEN acc
    ELSE IF Head(ids) \notin DOMAIN db THEN LoadRecords(db, Tail(ids), acc)
    ELSE LoadRecords(db, Tail(ids),
                     Append(acc, Bytes(DbReadPlaintext(db, Head(ids)).value[1])))

\* the Vec of the records decoded, or the first error of a decode
Collect(decoded) ==
    IF \E i \in 1..Len(decoded) : ~decoded[i].ok
    THEN [ok |-> FALSE, value |-> <<>>]
    ELSE [ok |-> TRUE, value |-> [i \in 1..Len(decoded) |-> decoded[i].value]]

DecodeAccounts(records) ==
    [i \in 1..Len(records) |-> DecodeAccountRaw(records[i])]

DecodeNotes(records) ==
    [i \in 1..Len(records) |-> DecodeNoteRaw(records[i])]

\* the index decoded: the ids of the index, or its error
ListedOf(decoded) ==
    [ok |-> decoded.ok, ids |-> IF decoded.ok THEN decoded.ids ELSE <<>>]

\* the ids of an index: none when there is no index record
Listed(db, ids_key) ==
    IF ids_key \notin DOMAIN db THEN [ok |-> TRUE, ids |-> <<>>]
    ELSE ListedOf(DecodeIds(Bytes(DbReadPlaintext(db, ids_key).value[1])))

AccountsOf(db, listed) ==
    IF ~listed.ok THEN [ok |-> FALSE, value |-> <<>>]
    ELSE Collect(DecodeAccounts(LoadRecords(db, listed.ids, <<>>)))

NotesOf(db, listed) ==
    IF ~listed.ok THEN [ok |-> FALSE, value |-> <<>>]
    ELSE Collect(DecodeNotes(LoadRecords(db, listed.ids, <<>>)))

\* ExecutionContext::load_accounts
LoadAccounts(db) == AccountsOf(db, Listed(db, AccountIdsKey))

\* load_notes that takes a listed id without a record for an error
LoadNotes_MissingIsError(db) ==
    IF \E i \in 1..Len(Listed(db, NotesIdsKey).ids) :
            Listed(db, NotesIdsKey).ids[i] \notin DOMAIN db
    THEN [ok |-> FALSE, value |-> <<>>]
    ELSE NotesOf(db, Listed(db, NotesIdsKey))

\* ExecutionContext::load_notes
LoadNotes(db) == NotesOf(db, Listed(db, NotesIdsKey))

\* the metadata record of an account, as generate_account and
\* import_account encode it
AccountRecord(loaded, alias, uuid, acct) ==
    EncodeAccountRaw([alias |-> alias, address |-> acct.address,
                      uuid |-> uuid, is_default |-> loaded = <<>>])

\* the metadata record of a note, as import_note encodes it
NoteRecord(alias, uuid, n) ==
    EncodeNoteRaw([alias |-> alias, value |-> NoteToString(Zeroize(n)),
                   uuid |-> uuid, used |-> FALSE])

\* the store after the first k store writes of generate_account,
\* import_account or import_note: the metadata record, then the encrypted
\* record; the index is the third write
WritesPrefix(st, pass, uuid, record, suffix, secret_bytes, nonce, k) ==
    IF k = 0 THEN st
    ELSE IF k = 1 THEN StWritePlaintext(st, uuid, record)
    ELSE StWrite(StWritePlaintext(st, uuid, record), pass, uuid \o suffix,
                 secret_bytes, nonce).st

(***************************************************************************)
(* fetch_tree_leaves and the ledger it asks.  A leaf of the ledger is      *)
(* named by its position, a Vec of leaves is the sequence of the runs      *)
(* [lo, hi) of positions it holds, and positions are usize numbers.        *)
(***************************************************************************)
PageSize == 511

\* a < b, for two numbers of the same width
ULess(a, b) ==
    \E x \in {a}, y \in {b} :
        \E i \in 1..Len(x) : x[i] < y[i] /\ \A k \in 1..(i - 1) : x[k] = y[k]

UMin(a, b) == IF ULess(b, a) THEN b ELSE a

\* from.into(): the u32 as the usize the ledger reads
Widen(u) == UZero(UsizeBytes - Len(u)) \o u

\* the leaves of the positions lo <= i < hi
Run(lo, hi) == IF ULess(lo, hi) THEN <<[lo |-> lo, hi |-> hi]>> ELSE <<>>

\* the answer of the ledger to merkle_treeLeaves(tree_id, from, to): the
\* leaves it holds of the positions from <= i < to, or from <= i <= to
TreeLeaves(l, from, to) ==
    Run(Widen(from),
        UMin(l.size, IF l.range = "half_open" THEN Widen(to)
                     ELSE MulAdd(Widen(to), 1, 1).value))

\* total_leaves.extend(leaves)
Extend(total_leaves, leaves) ==
    IF leaves = <<>> THEN total_leaves
    ELSE IF total_leaves # <<>> /\ total_leaves[Len(total_leaves)].hi = leaves[1].lo
    THEN SubSeq(total_leaves, 1, Len(total_leaves) - 1)
         \o <<[lo |-> total_leaves[Len(total_leaves)].lo, hi |-> leaves[1].hi]>>
    ELSE total_leaves \o leaves

\* if leaves.is_empty() that breaks on a page that holds leaves
IsLastPage_Inverted(leaves) == leaves # <<>>

\* if leaves.is_empty()
IsLastPage(leaves) == leaves = <<>>

\* from = to, with one position skipped
NextFrom_SkippingOne(to) == MulAdd(to, 1, 1).value

\* from = to
NextFrom(to) == to

\* to += 511: the sum modulo 2^32, and the carry when it does not fit
NextTo(to) == MulAdd(to, 1, PageSize)

\* let mut from: u32 = 0; let mut to: u32 = 511; let mut total_leaves = Vec::new()
FetchStart ==
    [pc |-> "request", from |-> UZero(U32Bytes), to |-> UOf(PageSize, U32Bytes),
     total_leaves |-> <<>>, leaves |-> <<>>, requests |-> 0,
     overflowed |-> FALSE, empty_seen |-> FALSE, after_empty |-> FALSE]

\* fetch_tree_leaves is not running
FetchIdle ==
    /\ ledger = [size |-> UZero(UsizeBytes), range |-> "half_open"]
    /\ fetch = [FetchStart EXCEPT !.pc = "idle"]

(***************************************************************************)
(* The Mixer: a Merkle tree of depth 32 over scalars, the secrets of the   *)
(* notes saved in it.  The hash is an injective symbolic function, and the *)
(* hash of an empty subtree is the hash of its two empty halves.           *)
(***************************************************************************)
TreeDepth == 32

ScalarLen == 32

\* Scalar::from_bytes_mod_order, on the bytes of a scalar below the order
ScalarOf(bytes) == <<"s", bytes>>

\* the default of an unpopulated position of level k: the zero scalar at
\* the leaves, the hash of two defaults above
Zero(k) == IF k = 0 THEN ScalarOf(Rep(0, ScalarLen)) ELSE <<"z", k>>

\* Poseidon_hash_2 of two nodes of level k
Hash2(k, l, r) ==
    IF l = Zero(k) /\ r = Zero(k) THEN Zero(k + 1) ELSE <<"h", l, r>>

\* the nodes of level k + 1 over the nodes row of level k
LevelUp(k, row) ==
    [i \in 1..((Len(row) + 1) \div 2) |->
        Hash2(k, row[2 * i - 1], IF 2 * i <= Len(row) THEN row[2 * i] ELSE Zero(k))]

\* the root over the populated nodes row of level k
RECURSIVE MerkleRoot(_, _)
MerkleRoot(k, row) ==
    IF row = <<>> THEN Zero(TreeDepth)
    ELSE IF k = TreeDepth THEN row[1]
    ELSE CHOOSE root \in {MerkleRoot(k + 1, up) : up \in {LevelUp(k, row)}} : TRUE

\* FixedDepositTreeBuilder::new().depth(32).build()
EmptyTree == [depth |-> TreeDepth, leaves |-> <<>>, root |-> Zero(TreeDepth)]

\* the tree with one more leaf, at the first unpopulated position
TreeInsert(tree, val) ==
    [tree EXCEPT !.leaves = Append(@, ScalarOf(val)),
                 !.root = MerkleRoot(0, Append(tree.leaves, ScalarOf(val)))]

\* tree.add_leaves(vals, None)
RECURSIVE TreeAddLeaves(_, _)
TreeAddLeaves(tree, vals) ==
    IF vals = <<>> THEN tree
    ELSE CHOOSE t \in {TreeAddLeaves(next, Tail(vals)) :
                          next \in {TreeInsert(tree, Head(vals))}} : TRUE

\* Mixer::root
MixerRoot(mixer) == mixer.tree.root

\* Mixer::new
MixerNew(id) == [id |-> id, tree |-> EmptyTree, secrets |-> << >>]

\* tree.leaf_data_from_bytes(r, nullifier): the two scalars, the hash of
\* the nullifier and the leaf
LeafDataFromBytes(r, nullifier) ==
    [r |-> ScalarOf(r),
     nullifier |-> ScalarOf(nullifier),
     nullifier_hash |-> Hash2(0, ScalarOf(nullifier), ScalarOf(nullifier)),
     leaf |-> Hash2(0, ScalarOf(r), ScalarOf(nullifier))]

\* tree.add_secrets(leaf, r, nullifier, nullifier_hash)
AddSecrets(mixer, data) ==
    [mixer EXCEPT !.secrets =
        [l \in DOMAIN mixer.secrets \cup {data.leaf} |->
            IF l = data.leaf
            THEN [r |-> data.r, nullifier |-> data.nullifier,
                  nullifier_hash |-> data.nullifier_hash]
            ELSE mixer.secrets[l]]]

\* save_note whose leaf depends on the leaves the tree holds
MixerSaveNote_Positional(mixer, n) ==
    [mixer |-> AddSecrets(mixer, LeafDataFromBytes(n.r, n.nullifier)),
     leaf |-> Hash2(0, LeafDataFromBytes(n.r, n.nullifier).leaf, MixerRoot(mixer))]

\* Mixer::save_note: the Mixer after the call and the leaf returned
MixerSaveNote(mixer, n) ==
    [mixer |-> AddSecrets(mixer, LeafDataFromBytes(n.r, n.nullifier)),
     leaf |-> LeafDataFromBytes(n.r, n.nullifier).leaf]

\* add_leaves that hands the leaves to the tree last first
MixerAddLeaves_Reversed(mixer, leaves) ==
    [mixer EXCEPT !.tree =
        TreeAddLeaves(mixer.tree,
                      [i \in 1..Len(leaves) |-> leaves[Len(leaves) + 1 - i]])]

\* Mixer::add_leaves
MixerAddLeaves(mixer, leaves) ==
    [mixer EXCEPT !.tree =
        TreeAddLeaves(mixer.tree, [i \in 1..Len(leaves) |-> leaves[i]])]

\* no Mixer has been built
MixerIdle ==
    /\ mixers = << >>
    /\ mres = [call |-> "none", id |-> 0, value |-> <<>>]

\* the ledger before its first block: the tree of the mixer is empty and
\* no root is cached
ChainStart == [number |-> 0, tree |-> EmptyTree, cached |-> << >>]

\* no command is running
CmdIdle ==
    [pc |-> "idle", uuid |-> <<>>, leaf |-> Zero(0), mixer |-> MixerNew(0),
     recent |-> 0, root |-> Zero(0)]

NoHistory == [accepted |-> {}, marked |-> {}, withdrawn |-> {}, submitted |-> {}]

ChainIdle ==
    /\ chain = ChainStart
    /\ cmd = CmdIdle
    /\ hist = NoHistory

\* the options main is given: none
NoArgs ==
    [password_interactive |-> FALSE, password_filename |-> None, password |-> None,
     unsafe_flag |-> FALSE]

\* main at its start, with its options and the password hash file of the
\* data directory
MainStart(args, hash) ==
    [pc |-> "start", args |-> args, hash |-> hash, got |-> None, err |-> "",
     opened |-> FALSE, ran |-> FALSE]

MainIdle == main = [MainStart(NoArgs, None) EXCEPT !.pc = "idle"]

\* the state of every part of the program but one, before it runs
Idle(part) ==
    /\ IF part = "fetch" THEN TRUE ELSE FetchIdle
    /\ IF part = "mixer" THEN TRUE ELSE MixerIdle
    /\ IF part = "chain" THEN TRUE ELSE ChainIdle
    /\ IF part = "main" THEN TRUE ELSE MainIdle

\* the rest of the program has not run
NoteIdle ==
    /\ steps = 0
    /\ npc = "idle"
    /\ note = None
    /\ text = <<>>
    /\ parsed = NoResult

(***************************************************************************)
(* The notes and the texts the note format is exercised on                 *)
(***************************************************************************)
MaxBadFields == 2

MaxFieldDelta == 2

PatternSecret == [i \in 1..SecretLen |-> (7 * i + 3) % 256]

SampleSecrets == {PatternSecret, Rep(255, SecretLen)}

SampleNotes ==
    [prefix : NotePrefixes,
     version : NoteVersions,
     target_chain_id : {UOf(0, U32Bytes), UMax(U32Bytes)},
     source_chain_id : {UOf(2, U32Bytes)},
     backend : Backends,
     hash_function : HashFunctions,
     curve : Curves,
     exponentiation : {UOf(5, U8Bytes)},
     width : {UOf(5, UsizeBytes), UMax(UsizeBytes)},
     secret : SampleSecrets,
     token_symbol : {<<"T", "E", "S", "T">>, <<>>, <<"A", ":", "B">>},
     amount : {<<"1", "0", "0", "0">>, <<"1", ":", "5">>},
     denomination : {UOf(18, U8Bytes), UMax(U8Bytes)}]

GoodHex == HexEncode(PatternSecret)

GoodFields ==
    << <<"w", "e", "b", "b", ".", "m", "i", "x", "e", "r">>, <<"v", "1">>, <<"1">>, <<"2">>, <<"C", "i", "r", "c", "o", "m">>, <<"B", "n", "2", "5", "4">>, <<"P", "o", "s", "e", "i", "d", "o", "n">>,
       <<"T", "E", "S", "T">>, <<"1", "8">>, <<"1", "0", "0", "0">>, <<"5">>, <<"5">>, GoodHex >>

\* Other texts for each field: unknown tags, numbers out of range or not
\* numbers, and secret sections with a '0x' at several places, of the
\* wrong length, or not hexadecimal.
OtherFields ==
    << {<<"w", "e", "b", "b", ".", "m", "i", "x">>, <<>>},
       {<<"v", "2">>},
       {<<"x">>, <<"4", "2", "9", "4", "9", "6", "7", "2", "9", "6">>, <<"4", "2", "9", "4", "9", "6", "7", "2", "9", "5">>},
       {<<"-", "2">>, <<"+", "2">>},
       {<<"c", "i", "r", "c", "o", "m">>},
       {<<"B", "n", "2", "5", "6">>},
       {<<"S", "h", "a", "2", "5", "6">>},
       {<<>>},
       {<<"1", "x">>, <<"2", "5", "6">>, <<"0", "0", "7">>},
       {<<>>},
       {<<>>, <<"-", "5">>},
       {<<"1", "8", "4", "4", "6", "7", "4", "4", "0", "7", "3", "7", "0", "9", "5", "5", "1", "6", "1", "6">>, <<"1", "8", "4", "4", "6", "7", "4", "4", "0", "7", "3", "7", "0", "9", "5", "5", "1", "6", "1", "5">>},
       { <<"0", "x">> \o GoodHex,
         SubSeq(GoodHex, 1, 64) \o <<"0", "x">> \o SubSeq(GoodHex, 65, 128),
         GoodHex \o <<"0", "x">>,
         <<"0", "x", "0", "x">> \o GoodHex,
         <<"0", "X">> \o GoodHex,
         <<"0", "0", "x", "x">> \o GoodHex,
         SubSeq(GoodHex, 1, 126),
         SubSeq(GoodHex, 1, 127),
         GoodHex \o <<"0", "0">>,
         <<"g">> \o SubSeq(GoodHex, 2, 128),
         Rep("A", 2 * SecretLen),
         <<>> } >>

RECURSIVE FieldLists(_, _)
FieldLists(i, budget) ==
    IF i > NoteFieldCount THEN {<<>>}
    ELSE { <<GoodFields[i]>> \o r : r \in FieldLists(i + 1, budget) }
         \cup
         (IF budget = 0 THEN {}
          ELSE { <<o>> \o r : o \in OtherFields[i],
                              r \in FieldLists(i + 1, budget - 1) })

SampleTexts ==
    { Join(f, ":") : f \in FieldLists(1, MaxBadFields) }
    \cup { Join(SubSeq(GoodFields, 1, NoteFieldCount - k), ":") :
             k \in 1..MaxFieldDelta }
    \cup { Join(SubSeq(GoodFields, k + 1, NoteFieldCount), ":") :
             k \in 1..MaxFieldDelta }
    \cup { Join(GoodFields \o Rep(<<"0">>, k), ":") : k \in 1..MaxFieldDelta }
    \cup { Join(GoodFields, ":") \o Rep(":", k) : k \in 1..MaxFieldDelta }
    \cup { <<>> }

(***************************************************************************)
(* The note format as a state machine: a Note is serialized, a text is     *)
(* parsed.                                                                 *)
(***************************************************************************)
NoteInit ==
    /\ DbStart
    /\ Idle("")
    /\ steps = 0
    /\ parsed = NoResult
    /\ \/ /\ npc = "note"
          /\ note \in { Some(n) : n \in SampleNotes }
          /\ text = <<>>
       \/ /\ npc = "text"
          /\ note = None
          /\ text \in SampleTexts

\* note.to_string()
to_string ==
    /\ npc = "note"
    /\ text' = NoteToString(note[1])
    /\ npc' = "serialized"
    /\ UNCHANGED <<note, parsed>>
    /\ UNCHANGED <<dbVars, ctxVars, cmdVars, steps>>

\* text.parse::<Note>()
from_str ==
    /\ npc \in {"text", "serialized"}
    /\ parsed' = NoteFromStr(text)
    /\ npc' = "parsed"
    /\ UNCHANGED <<note, text>>
    /\ UNCHANGED <<dbVars, ctxVars, cmdVars, steps>>

NoteNext == to_string \/ from_str

NoteSpec == NoteInit /\ [][NoteNext]_vars

(***************************************************************************)
(* Properties of the note format                                           *)
(***************************************************************************)
ColonCount(s) == Cardinality({i \in 1..Len(s) : s[i] = ":"})

AllHex(s) == \A i \in 1..Len(s) : IsHexDigit(s[i])

TagFields == {1, 2, 5, 6, 7}

TagErrorOf ==
    << "UnsupportedNotePrefix", "UnsupportedNoteVersion", "", "",
       "UnsupportedNoteBackend", "UnsupportedNoteCurve",
       "UnsupportedNoteHashFunction" >>

KnownTag(i, s) ==
    CASE i = 1 -> \E p \in NotePrefixes : NotePrefixToString(p) = s
      [] i = 2 -> \E v \in NoteVersions : NoteVersionToString(v) = s
      [] i = 5 -> \E b \in Backends : BackendToString(b) = s
      [] i = 6 -> \E c \in Curves : CurveToString(c) = s
      [] i = 7 -> \E h \in HashFunctions : HashFunctionToString(h) = s

NumbersValid(parts) ==
    /\ UFromStr(parts[3], U32Bytes).ok
    /\ UFromStr(parts[4], U32Bytes).ok
    /\ UFromStr(parts[9], U8Bytes).ok
    /\ UFromStr(parts[11], U8Bytes).ok
    /\ UFromStr(parts[12], UsizeBytes).ok

FirstTwelveValid(parts) ==
    /\ \A i \in TagFields : KnownTag(i, parts[i])
    /\ NumbersValid(parts)

\* the secret section with every "0x" taken out is 128 hexadecimal digits
Decodes64(s) ==
    LET h == RemoveAll(s, <<"0", "x">>)
    IN  Len(h) = 2 * SecretLen /\ AllHex(h)

\* 128 hexadecimal digits, or "0x" and then 128 hexadecimal digits
Leading0xOnly(s) ==
    \/ Len(s) = 2 * SecretLen /\ AllHex(s)
    \/ /\ Len(s) = 2 * SecretLen + 2
       /\ SubSeq(s, 1, 2) = <<"0", "x">>
       /\ AllHex(SubSeq(s, 3, Len(s)))

\* C1: parsing the text produced by serializing a Note returns that Note.
C1_RoundTrip ==
    (npc = "parsed" /\ note # None) => parsed = NoteOk(note[1])

\* C2: Note parse ends with a Note or an Error value for every text; it
\* never aborts the process.
C2_ParseNeverAborts ==
    npc = "parsed" => parsed.kind \in {"Ok", "Err"}

\* C3: a text with fewer or more than 12 ':' delimiters (so not exactly 13
\* fields) is rejected with InvalidNoteFormat, never parsed to a Note.
C3_FieldCountRejected ==
    (npc = "parsed" /\ ColonCount(text) # NoteFieldCount - 1)
        => parsed = NoteErr("InvalidNoteFormat", <<>>)

C3_Witness ==
    /\ npc = "parsed"
    /\ ColonCount(text) > NoteFieldCount - 1
    /\ parsed.err = "InvalidNoteFormat"

\* C4: in a 13-field text where exactly one of the prefix, version, backend,
\* curve and hash-function fields is an unknown tag and every other field is
\* valid, parse fails with the unsupported-variant error of that field,
\* carrying the text of the field; each field has its own error.
C4_UnsupportedVariant ==
    npc = "parsed" =>
        LET parts == Split(text, ":")
            bad == {i \in TagFields : ~KnownTag(i, parts[i])}
        IN  (/\ Len(parts) = NoteFieldCount
             /\ Cardinality(bad) = 1
             /\ NumbersValid(parts)
             /\ Decodes64(parts[NoteFieldCount]))
            => /\ \E i \in bad : parsed = NoteErr(TagErrorOf[i], parts[i])
               /\ \A i, j \in TagFields : i # j => TagErrorOf[i] # TagErrorOf[j]

C4_Witness ==
    /\ npc = "parsed"
    /\ LET parts == Split(text, ":")
       IN  /\ Len(parts) = NoteFieldCount
           /\ {i \in TagFields : ~KnownTag(i, parts[i])} = {6}
           /\ NumbersValid(parts)
           /\ Decodes64(parts[NoteFieldCount])
    /\ parsed.err = "UnsupportedNoteCurve"

ChainIdCase(parts) ==
    /\ KnownTag(1, parts[1])
    /\ KnownTag(2, parts[2])
    /\ \/ ~UFromStr(parts[3], U32Bytes).ok
       \/ ~UFromStr(parts[4], U32Bytes).ok

\* C5 as stated: with twelve valid fields parse succeeds only if the secret
\* decodes to exactly 64 bytes, and every secret that does not fails with
\* InvalidNoteSecrets; a chain id that is no u32 fails with InvalidChainId.
C5_AnyBadSecretIsInvalidNoteSecrets ==
    npc = "parsed" =>
        LET parts == Split(text, ":")
        IN  Len(parts) = NoteFieldCount =>
              /\ FirstTwelveValid(parts) =>
                   /\ parsed.kind = "Ok" => Decodes64(parts[NoteFieldCount])
                   /\ ~Decodes64(parts[NoteFieldCount])
                        => parsed = NoteErr("InvalidNoteSecrets", <<>>)
              /\ ChainIdCase(parts) => parsed = NoteErr("InvalidChainId", <<>>)

\* C5 amended: with twelve valid fields parse succeeds exactly when the
\* secret, every "0x" removed, is 128 hexadecimal digits; an even number
\* other than 128 of hexadecimal digits fails with InvalidNoteSecrets, an odd
\* number of characters or a character that is no hexadecimal digit fails
\* with the Hex error; a chain id that is no u32 fails with InvalidChainId.
C5_SecretErrors ==
    npc = "parsed" =>
        LET parts == Split(text, ":")
            h == RemoveAll(parts[NoteFieldCount], <<"0", "x">>)
        IN  Len(parts) = NoteFieldCount =>
              /\ FirstTwelveValid(parts) =>
                   /\ parsed.kind = "Ok" <=> Decodes64(parts[NoteFieldCount])
                   /\ (AllHex(h) /\ Len(h) % 2 = 0 /\ Len(h) # 2 * SecretLen)
                        => parsed = NoteErr("InvalidNoteSecrets", <<>>)
                   /\ (~AllHex(h) \/ Len(h) % 2 = 1)
                        => parsed = NoteErr("Hex", <<>>)
              /\ ChainIdCase(parts) => parsed = NoteErr("InvalidChainId", <<>>)

C5_Witness ==
    /\ npc = "parsed"
    /\ LET parts == Split(text, ":")
           h == RemoveAll(parts[NoteFieldCount], <<"0", "x">>)
       IN  /\ Len(parts) = NoteFieldCount
           /\ FirstTwelveValid(parts)
           /\ AllHex(h)
           /\ Len(h) > 2 * SecretLen
    /\ parsed.err = "InvalidNoteSecrets"

\* C6: parse accepts the secret field exactly when it is 128 hexadecimal
\* digits, optionally after one leading "0x"; serialize emits the secret as
\* 128 hexadecimal digits without "0x".
C6_Only0xPrefixStripped ==
    /\ npc = "parsed" =>
         LET parts == Split(text, ":")
         IN  (Len(parts) = NoteFieldCount /\ FirstTwelveValid(parts))
                => (parsed.kind = "Ok" <=> Leading0xOnly(parts[NoteFieldCount]))
    /\ npc = "serialized" =>
         LET parts == Split(text, ":")
             last == parts[Len(parts)]
         IN  Len(last) = 2 * SecretLen /\ AllHex(last)

(***************************************************************************)
(* The datastore as a state machine: the calls of SledDatastore on keys,   *)
(* values and passphrases of a small set, and a stored record altered      *)
(* outside the program (tampering, truncation).                            *)
(***************************************************************************)
MaxDbSteps == 4

DbKeys == {<<"k", "1">>, <<"k", "2">>}

DbValues == {Rep(7, 10), [i \in 1..32 |-> 100 + i]}

Passphrases == {"correct horse", "hunter22"}

\* rng.fill_bytes(&mut nonce_bytes)
Nonces == {Rep(0, NonceLen), Rep(255, NonceLen)}

DbInit ==
    /\ DbStart
    /\ Idle("")
    /\ steps = 0
    /\ npc = "idle"
    /\ note = None
    /\ text = <<>>
    /\ parsed = NoResult

\* SledDatastore::set_secret
set_secret(p) ==
    /\ steps < MaxDbSteps
    /\ steps' = steps + 1
    /\ secret' = Some(p)
    /\ dpc' = "set_secret"
    /\ dkey' = <<>>
    /\ dres' = NoDbResult
    /\ UNCHANGED <<sled, origin>>
    /\ UNCHANGED <<noteVars, ctxVars, cmdVars>>

\* SledDatastore::write
write(k, v, n) ==
    /\ steps < MaxDbSteps
    /\ steps' = steps + 1
    /\ LET w == DbWrite(sled, secret, k, v, n)
       IN  /\ sled' = w.db
           /\ dres' = w.res
           /\ origin' = IF w.res.kind = "Ok"
                        THEN SledInsert(origin, k, Origin("write", secret, v))
                        ELSE origin
    /\ dpc' = "write"
    /\ dkey' = k
    /\ UNCHANGED <<secret, noteVars, ctxVars, cmdVars>>

\* SledDatastore::write_plaintext
write_plaintext(k, v) ==
    /\ steps < MaxDbSteps
    /\ steps' = steps + 1
    /\ LET w == DbWritePlaintext(sled, k, v)
       IN  /\ sled' = w.db
           /\ dres' = w.res
    /\ origin' = SledInsert(origin, k, Origin("write_plaintext", None, v))
    /\ dpc' = "write_plaintext"
    /\ dkey' = k
    /\ UNCHANGED <<secret, noteVars, ctxVars, cmdVars>>

\* SledDatastore::remove
remove(k) ==
    /\ steps < MaxDbSteps
    /\ steps' = steps + 1
    /\ LET w == DbRemove(sled, k)
       IN  /\ sled' = w.db
           /\ dres' = w.res
    /\ origin' = SledRemove(origin, k)
    /\ dpc' = "remove"
    /\ dkey' = k
    /\ UNCHANGED <<secret, noteVars, ctxVars, cmdVars>>

\* SledDatastore::read
read(k) ==
    /\ dres' = DbRead(sled, secret, k)
    /\ dpc' = "read"
    /\ dkey' = k
    /\ UNCHANGED <<sled, secret, origin, steps, noteVars, ctxVars, cmdVars>>

\* SledDatastore::read_plaintext
read_plaintext(k) ==
    /\ dres' = DbReadPlaintext(sled, k)
    /\ dpc' = "read_plaintext"
    /\ dkey' = k
    /\ UNCHANGED <<sled, secret, origin, steps, noteVars, ctxVars, cmdVars>>

\* One byte of a stored record is changed outside the program.
Tamper(k, i) ==
    /\ steps < MaxDbSteps
    /\ steps' = steps + 1
    /\ k \in DOMAIN sled
    /\ origin[k].how \in {"write", "write_plaintext"}
    /\ i \in 1..Len(sled[k])
    /\ LET old == sled[k][i]
           new == IF old[1] = "b" THEN <<"b", 255 - old[2]>> ELSE <<"b", 0>>
       IN  sled' = [sled EXCEPT ![k][i] = new]
    /\ origin' = [origin EXCEPT ![k] = Origin("tampered", None, <<>>)]
    /\ dpc' = "tamper"
    /\ dkey' = k
    /\ dres' = NoDbResult
    /\ UNCHANGED <<secret, noteVars, ctxVars, cmdVars>>

\* A stored record is cut to its first n bytes outside the program.
Truncate(k, n) ==
    /\ steps < MaxDbSteps
    /\ steps' = steps + 1
    /\ k \in DOMAIN sled
    /\ origin[k].how \in {"write", "write_plaintext"}
    /\ n < Len(sled[k])
    /\ sled' = [sled EXCEPT ![k] = SubSeq(sled[k], 1, n)]
    /\ origin' = [origin EXCEPT ![k] = Origin("truncated", None, <<>>)]
    /\ dpc' = "truncate"
    /\ dkey' = k
    /\ dres' = NoDbResult
    /\ UNCHANGED <<secret, noteVars, ctxVars, cmdVars>>

DbNext ==
    \/ \E p \in Passphrases : set_secret(p)
    \/ \E k \in DbKeys, v \in DbValues, n \in Nonces : write(k, v, n)
    \/ \E k \in DbKeys, v \in DbValues : write_plaintext(k, v)
    \/ \E k \in DbKeys : remove(k)
    \/ \E k \in DbKeys : read(k)
    \/ \E k \in DbKeys : read_plaintext(k)
    \/ \E k \in DbKeys, i \in {1, NonceLen + 1} : Tamper(k, i)
    \/ \E k \in DbKeys, n \in {NonceLen - 1, NonceLen + TagLen} : Truncate(k, n)

DbSpec == DbInit /\ [][DbNext]_vars

(***************************************************************************)
(* Properties of the datastore                                             *)
(***************************************************************************)
\* C7: a read of a key stored by the encrypting write returns exactly the
\* bytes written when the passphrase is the one of the write, and a
\* decryption error, never Ok, under any other passphrase.
C7_StoreRoundTrip ==
    (/\ dpc = "read"
     /\ secret # None
     /\ dkey \in DOMAIN origin
     /\ origin[dkey].how = "write")
    => IF secret = origin[dkey].pass
       THEN dres = DbOk(Some(origin[dkey].value))
       ELSE dres = DbErr("data decryption!")

C7_Witness ==
    /\ dpc = "read"
    /\ secret # None
    /\ dkey \in DOMAIN origin
    /\ origin[dkey].how = "write"
    /\ secret # origin[dkey].pass
    /\ dres.kind = "Err"

\* C8: an encrypted read of a key whose record is not a nonce and a
\* ciphertext of the current passphrase (a tampered record, a truncated
\* record, a record stored by write_plaintext) returns the decryption error:
\* not Ok(Some), not Ok(None), not an abort.
C8_InvalidRecordIsDecryptError ==
    (/\ dpc = "read"
     /\ secret # None
     /\ dkey \in DOMAIN origin
     /\ origin[dkey].how \in {"tampered", "truncated", "write_plaintext"})
    => dres = DbErr("data decryption!")

(***************************************************************************)
(* The execution context: accounts and notes are created, used and         *)
(* forgotten over one datastore, the passphrase is set at any moment, and  *)
(* the program is started again over the same database.                    *)
(***************************************************************************)
MaxUuids == 2

\* uuid::Uuid::new_v4().to_string(), the i-th uuid generated
UuidText(i) ==
    <<"0", "0", "0", "0", "0", "0", "0", "0", "-", "0", "0", "0", "0", "-", "4", "0", "0", "0", "-", "8", "0", "0", "0", "-", "0", "0", "0", "0", "0", "0", "0", "0", "0", "0", "0">> \o <<DecDigits[i + 1]>>

Aliases == {<<"a", "l", "i", "c", "e">>}

\* the seed and the public address of the key pair of account::generate
GeneratedKeys ==
    {[seed |-> [i \in 1..SeedLen |-> 128 + i],
      address |-> <<"5", "G", "r", "w">>]}

\* the Result of account::restore
Restored ==
    {[ok |-> TRUE,
      keys |-> [seed |-> [i \in 1..SeedLen |-> 255 - i],
                address |-> <<"5", "F", "H", "n">>]],
     [ok |-> FALSE, keys |-> [seed |-> <<>>, address |-> <<>>]]}

CtxNonces == {Rep(0, NonceLen)}

ImportedNotes ==
    {[prefix |-> "Mixer", version |-> "V1",
      target_chain_id |-> UOf(0, U32Bytes), source_chain_id |-> UOf(2, U32Bytes),
      backend |-> "Arkworks", hash_function |-> "Poseidon", curve |-> "Bn254",
      exponentiation |-> UOf(5, U8Bytes), width |-> UOf(5, UsizeBytes),
      secret |-> PatternSecret, token_symbol |-> <<"T", "E", "S", "T">>, amount |-> <<"1", "0", "0", "0">>,
      denomination |-> UOf(18, U8Bytes)],
     [prefix |-> "Bridge", version |-> "V1",
      target_chain_id |-> UOf(0, U32Bytes), source_chain_id |-> UOf(2, U32Bytes),
      backend |-> "Circom", hash_function |-> "MiMCTornado", curve |-> "Bls381",
      exponentiation |-> UOf(5, U8Bytes), width |-> UOf(5, UsizeBytes),
      secret |-> Rep(255, SecretLen), token_symbol |-> <<"A", ":", "B">>, amount |-> <<"1">>,
      denomination |-> UOf(18, U8Bytes)]}

\* the Result of mixer::generate_secrets
Generated ==
    {[ok |-> TRUE, secret |-> [i \in 1..SecretLen |-> (11 * i + 5) % 256]],
     [ok |-> FALSE, secret |-> <<>>]}

CtxStore == Store(sled, origin)

Returned(r) == [ok |-> r.ok, err |-> r.err, value |-> r.value]

\* the uuids import_note has returned: the ids of the index of the notes
ListedIds(db, ids_key) ==
    {id \in {UuidText(i) : i \in 1..MaxUuids} :
        \E i \in 1..Len(Listed(db, ids_key).ids) : Listed(db, ids_key).ids[i] = id}

CtxInit ==
    /\ DbStart
    /\ Idle("")
    /\ steps = 0
    /\ npc = "idle"
    /\ note = None
    /\ text = <<>>
    /\ parsed = NoResult

\* ExecutionContext::set_secret
context_set_secret(p) ==
    /\ secret' = Some(p)
    /\ cpc' = "set_secret"
    /\ cres' = [ok |-> TRUE, err |-> "", value |-> <<>>]
    /\ UNCHANGED <<sled, origin, dpc, dkey, dres>>
    /\ UNCHANGED <<accounts, notes, uuids, handed, failed, steps, noteVars, cmdVars>>

generate_account(alias, keys, nonce) ==
    /\ uuids < MaxUuids
    /\ \E r \in {SaveAccount(CtxStore, secret, accounts, alias,
                            UuidText(uuids + 1), keys, nonce)} :
           /\ sled' = r.st.sled
           /\ origin' = r.st.origin
           /\ cres' = Returned(r)
           /\ failed' = (failed \/ ~r.ok)
    /\ uuids' = uuids + 1
    /\ handed' = handed \cup {keys.seed}
    /\ cpc' = "generate_account"
    /\ UNCHANGED <<secret, dpc, dkey, dres>>
    /\ UNCHANGED <<accounts, notes, steps, noteVars, cmdVars>>

import_account(alias, restored, nonce) ==
    /\ uuids < MaxUuids
    /\ \E r \in {IF restored.ok
                THEN SaveAccount(CtxStore, secret, accounts, alias,
                                 UuidText(uuids + 1), restored.keys, nonce)
                ELSE CtxErr("Mnemonic", CtxStore)} :
           /\ sled' = r.st.sled
           /\ origin' = r.st.origin
           /\ cres' = Returned(r)
           /\ failed' = (failed \/ ~r.ok)
    /\ uuids' = IF restored.ok THEN uuids + 1 ELSE uuids
    /\ handed' = IF restored.ok THEN handed \cup {restored.keys.seed} ELSE handed
    /\ cpc' = "import_account"
    /\ UNCHANGED <<secret, dpc, dkey, dres>>
    /\ UNCHANGED <<accounts, notes, steps, noteVars, cmdVars>>

import_note(alias, n, nonce) ==
    /\ uuids < MaxUuids
    /\ \E r \in {ImportNote(CtxStore, secret, alias, n, UuidText(uuids + 1), nonce)} :
           /\ sled' = r.st.sled
           /\ origin' = r.st.origin
           /\ cres' = Returned(r)
           /\ failed' = (failed \/ ~r.ok)
    /\ uuids' = uuids + 1
    /\ handed' = handed \cup {n.secret}
    /\ cpc' = "import_note"
    /\ UNCHANGED <<secret, dpc, dkey, dres>>
    /\ UNCHANGED <<accounts, notes, steps, noteVars, cmdVars>>

generate_note(alias, asset_name, deposit_size, denomination, chain_id, generated, nonce) ==
    /\ uuids < MaxUuids
    /\ \E r \in {GenerateNote(CtxStore, secret, alias, asset_name, deposit_size,
                             denomination, chain_id, generated,
                             UuidText(uuids + 1), nonce)} :
           /\ sled' = r.st.sled
           /\ origin' = r.st.origin
           /\ cres' = Returned(r)
           /\ failed' = (failed \/ ~r.ok)
    /\ uuids' = IF generated.ok THEN uuids + 1 ELSE uuids
    /\ handed' = IF generated.ok THEN handed \cup {generated.secret} ELSE handed
    /\ cpc' = "generate_note"
    /\ UNCHANGED <<secret, dpc, dkey, dres>>
    /\ UNCHANGED <<accounts, notes, steps, noteVars, cmdVars>>

mark_note_as_used(uuid) ==
    /\ \E r \in {MarkNoteAsUsed(CtxStore, uuid)} :
           /\ sled' = r.st.sled
           /\ origin' = r.st.origin
           /\ cres' = Returned(r)
           /\ failed' = (failed \/ ~r.ok)
    /\ cpc' = "mark_note_as_used"
    /\ UNCHANGED <<secret, dpc, dkey, dres>>
    /\ UNCHANGED <<accounts, notes, uuids, handed, steps, noteVars, cmdVars>>

forget_note(uuid) ==
    /\ \E r \in {ForgetNote(CtxStore, uuid)} :
           /\ sled' = r.st.sled
           /\ origin' = r.st.origin
           /\ cres' = Returned(r)
           /\ failed' = (failed \/ ~r.ok)
    /\ cpc' = "forget_note"
    /\ UNCHANGED <<secret, dpc, dkey, dres>>
    /\ UNCHANGED <<accounts, notes, uuids, handed, steps, noteVars, cmdVars>>

\* the Result of ExecutionContext::new: the accounts and the notes loaded
NewContext(loaded_accounts, loaded_notes) ==
    IF loaded_accounts.ok /\ loaded_notes.ok
    THEN [ok |-> TRUE, err |-> "", accounts |-> loaded_accounts.value,
          notes |-> loaded_notes.value]
    ELSE [ok |-> FALSE, err |-> "failed to decode Protobuf message",
          accounts |-> <<>>, notes |-> <<>>]

\* the program starts again: SledDatastore::new, then ExecutionContext::new
new ==
    /\ \E c \in {NewContext(LoadAccounts(sled), LoadNotes(sled))} :
           /\ accounts' = c.accounts
           /\ notes' = c.notes
           /\ cres' = [ok |-> c.ok, err |-> c.err, value |-> <<>>]
           /\ failed' = (failed \/ ~c.ok)
    /\ secret' = None
    /\ cpc' = "new"
    /\ UNCHANGED <<sled, origin, dpc, dkey, dres>>
    /\ UNCHANGED <<uuids, handed, steps, noteVars, cmdVars>>

CtxNext ==
    \/ \E p \in Passphrases : context_set_secret(p)
    \/ \E alias \in Aliases, keys \in GeneratedKeys, nonce \in CtxNonces :
          generate_account(alias, keys, nonce)
    \/ \E alias \in Aliases, restored \in Restored, nonce \in CtxNonces :
          import_account(alias, restored, nonce)
    \/ \E alias \in Aliases, n \in ImportedNotes, nonce \in CtxNonces :
          import_note(alias, n, nonce)
    \/ \E alias \in Aliases, generated \in Generated, nonce \in CtxNonces :
          generate_note(alias, <<"W", "E", "B", "B">>, <<"1", "0", "0", "0">>, UOf(12, U8Bytes),
                        UOf(0, U32Bytes), generated, nonce)
    \/ \E uuid \in ListedIds(sled, NotesIdsKey) : mark_note_as_used(uuid)
    \/ \E uuid \in ListedIds(sled, NotesIdsKey) : forget_note(uuid)
    \/ new

CtxSpec == CtxInit /\ [][CtxNext]_vars

(***************************************************************************)
(* Properties of the execution context                                     *)
(***************************************************************************)
EndsWith(s, suffix) ==
    /\ Len(suffix) <= Len(s)
    /\ SubSeq(s, Len(s) - Len(suffix) + 1, Len(s)) = suffix

IsIndexKey(k) == k \in {AccountIdsKey, NotesIdsKey}

IsSecretKey(k) == EndsWith(k, SeedSuffix) \/ EndsWith(k, SecretSuffix)

\* the record holds the bytes s readable without a key: as they are, or as
\* hexadecimal text
InClear(record, s) ==
    \/ Contains(Bytes(record), s)
    \/ Contains(Bytes(record), Utf8(HexEncode(s)))

\* the record is the output of an encryption
IsCiphertext(record) ==
    \E i \in 1..Len(record) : record[i][1] \in {"c", "t"}

\* the keys of the plaintext records of notes
NoteRecordKeys ==
    {k \in DOMAIN sled :
        /\ ~IsIndexKey(k)
        /\ ~IsSecretKey(k)
        /\ DecodeNoteRaw(Bytes(sled[k])).ok}

\* the last colon-delimited field of the text of a note is the hexadecimal
\* text of a secret of zeros
ZeroSecretField(value) == EndsWith(value, <<":">> \o Rep("0", 2 * SecretLen))

\* C9: whatever accounts and notes were generated, imported or marked used,
\* no record holds a seed or a note secret readable without a key; the
\* records under "<uuid>_seed" and "<uuid>_secret" are exactly the
\* ciphertexts, each written by the encrypting write with a 32-byte seed
\* or a 64-byte note secret handed to the context; and the text of every
\* plaintext note record ends with the secret field of 128 zeros.
C9_SecretsOnlyEncrypted ==
    /\ \A k \in DOMAIN sled : \A s \in handed : ~InClear(sled[k], s)
    /\ \A k \in DOMAIN sled :
          /\ IsCiphertext(sled[k]) <=> IsSecretKey(k)
          /\ IsSecretKey(k) =>
                /\ origin[k].how = "write"
                /\ origin[k].value \in handed
                /\ Len(origin[k].value) =
                      (IF EndsWith(k, SeedSuffix) THEN SeedLen ELSE SecretLen)
    /\ \A k \in NoteRecordKeys :
          ZeroSecretField(DecodeNoteRaw(Bytes(sled[k])).value.value)

\* an account and a note are stored, and the note is marked used
C9_Witness ==
    /\ \E k \in DOMAIN sled : EndsWith(k, SeedSuffix)
    /\ \E k \in DOMAIN sled : EndsWith(k, SecretSuffix)
    /\ \E k \in NoteRecordKeys : DecodeNoteRaw(Bytes(sled[k])).value.used
    /\ handed # {}

\* the uuids that have a plaintext record and an encrypted record
WithRecords(suffix) ==
    {u \in {UuidText(i) : i \in 1..MaxUuids} :
        u \in DOMAIN sled /\ (u \o suffix) \in DOMAIN sled}

\* C10: as long as every call of the context returned Ok, the ids listed
\* in "notes_ids" are exactly the uuids that have a plaintext note record
\* and an encrypted "<uuid>_secret" record, and the ids listed in
\* "account_ids" are exactly the uuids that have an account record and an
\* encrypted "<uuid>_seed" record.
C10_IndexInSync ==
    ~failed =>
        /\ ListedIds(sled, NotesIdsKey) = WithRecords(SecretSuffix)
        /\ ListedIds(sled, AccountIdsKey) = WithRecords(SeedSuffix)

(***************************************************************************)
(* Interruption: generate_account, import_account and import_note run to   *)
(* their end, return an error, or the process dies after some of their     *)
(* store writes; the program is then started again.                        *)
(***************************************************************************)
\* the writes done before the process dies: none, the metadata record, or
\* the metadata record and the encrypted record
WritePrefixes == 0..2

CrashNotes == {n \in ImportedNotes : n.prefix = "Mixer"}

\* the process dies in a call of the context that was given secret_bytes
\* and had brought the store to st
Interrupted(st, secret_bytes, op) ==
    /\ sled' = st.sled
    /\ origin' = st.origin
    /\ uuids' = uuids + 1
    /\ handed' = handed \cup {secret_bytes}
    /\ failed' = TRUE
    /\ cpc' = "crashed"
    /\ cres' = [ok |-> FALSE, err |-> op, value |-> <<>>]
    /\ UNCHANGED <<secret, dpc, dkey, dres>>
    /\ UNCHANGED <<accounts, notes, steps, noteVars, cmdVars>>

interrupted_generate_account(alias, keys, nonce, k) ==
    /\ cpc # "crashed"
    /\ uuids < MaxUuids
    /\ k = 2 => secret # None
    /\ \E st \in {WritesPrefix(CtxStore, secret, UuidText(uuids + 1),
                              AccountRecord(accounts, alias, UuidText(uuids + 1), keys),
                              SeedSuffix, keys.seed, nonce, k)} :
           Interrupted(st, keys.seed, "generate_account")

interrupted_import_account(alias, restored, nonce, k) ==
    /\ cpc # "crashed"
    /\ uuids < MaxUuids
    /\ restored.ok
    /\ k = 2 => secret # None
    /\ \E st \in {WritesPrefix(CtxStore, secret, UuidText(uuids + 1),
                              AccountRecord(accounts, alias, UuidText(uuids + 1), restored.keys),
                              SeedSuffix, restored.keys.seed, nonce, k)} :
           Interrupted(st, restored.keys.seed, "import_account")

interrupted_import_note(alias, n, nonce, k) ==
    /\ cpc # "crashed"
    /\ uuids < MaxUuids
    /\ k = 2 => secret # None
    /\ \E st \in {WritesPrefix(CtxStore, secret, UuidText(uuids + 1),
                              NoteRecord(alias, UuidText(uuids + 1), n),
                              SecretSuffix, n.secret, nonce, k)} :
           Interrupted(st, n.secret, "import_note")

\* the calls of a running process
CrashRunning ==
    \/ \E p \in Passphrases : context_set_secret(p)
    \/ \E alias \in Aliases, keys \in GeneratedKeys, nonce \in CtxNonces :
          generate_account(alias, keys, nonce)
    \/ \E alias \in Aliases, restored \in Restored, nonce \in CtxNonces :
          import_account(alias, restored, nonce)
    \/ \E alias \in Aliases, n \in CrashNotes, nonce \in CtxNonces :
          import_note(alias, n, nonce)

CrashNext ==
    \/ cpc # "crashed" /\ CrashRunning
    \/ \E alias \in Aliases, keys \in GeneratedKeys, nonce \in CtxNonces, k \in WritePrefixes :
          interrupted_generate_account(alias, keys, nonce, k)
    \/ \E alias \in Aliases, restored \in Restored, nonce \in CtxNonces, k \in WritePrefixes :
          interrupted_import_account(alias, restored, nonce, k)
    \/ \E alias \in Aliases, n \in CrashNotes, nonce \in CtxNonces, k \in WritePrefixes :
          interrupted_import_note(alias, n, nonce, k)
    \/ new

CrashSpec == CtxInit /\ [][CrashNext]_vars

\* the uuids that have a record and are in no index
Orphans ==
    {u \in {UuidText(i) : i \in 1..MaxUuids} :
        /\ u \in DOMAIN sled
        /\ u \notin ListedIds(sled, NotesIdsKey)
        /\ u \notin ListedIds(sled, AccountIdsKey)}

\* C11: whatever calls of generate_account, import_account and import_note
\* ran to their end, returned an error or were cut by the death of the
\* process after any prefix of their store writes, every id listed in
\* "notes_ids" has its metadata record and its "<uuid>_secret" record and
\* every id listed in "account_ids" has its metadata record and its
\* "<uuid>_seed" record, the encrypted record written by the encrypting
\* write; what an interruption leaves is a record that no index lists.
C11_InterruptionLeavesOrphansOnly ==
    /\ ListedIds(sled, NotesIdsKey) \subseteq WithRecords(SecretSuffix)
    /\ ListedIds(sled, AccountIdsKey) \subseteq WithRecords(SeedSuffix)
    /\ \A u \in ListedIds(sled, NotesIdsKey) : origin[u \o SecretSuffix].how = "write"
    /\ \A u \in ListedIds(sled, AccountIdsKey) : origin[u \o SeedSuffix].how = "write"

\* the process died after the two records of an id were written, with
\* another id listed
C11_Witness ==
    /\ cpc = "crashed"
    /\ \E u \in Orphans : (u \o SecretSuffix) \in DOMAIN sled
    /\ ListedIds(sled, NotesIdsKey) \cup ListedIds(sled, AccountIdsKey) # {}

\* the ids of an index that have a record, in the order of the index
Present(db, ids_key) ==
    SelectSeq(Listed(db, ids_key).ids, LAMBDA id : id \in DOMAIN db)

\* the ids of an index that have no record
Dangling(db, ids_key) ==
    {i \in 1..Len(Listed(db, ids_key).ids) :
        Listed(db, ids_key).ids[i] \notin DOMAIN db}

NotesOfIds(db, ids) == [i \in 1..Len(ids) |-> DecodeNoteRaw(Bytes(db[ids[i]])).value]

AccountsOfIds(db, ids) == [i \in 1..Len(ids) |-> DecodeAccountRaw(Bytes(db[ids[i]])).value]

\* C12: ExecutionContext::new succeeds over a store whose indexes list ids
\* without a metadata record; the accounts and the notes it loads are the
\* decoded records of the listed ids that exist, in the order of the index,
\* and an index that is not in the store loads as the empty list.
C12_LoadSkipsMissing ==
    cpc = "new" =>
        /\ cres.ok
        /\ notes = NotesOfIds(sled, Present(sled, NotesIdsKey))
        /\ accounts = AccountsOfIds(sled, Present(sled, AccountIdsKey))
        /\ NotesIdsKey \notin DOMAIN sled => notes = <<>>
        /\ AccountIdsKey \notin DOMAIN sled => accounts = <<>>

\* the context is built over an index of two notes, the first forgotten
C12_Witness ==
    /\ cpc = "new"
    /\ cres.ok
    /\ Dangling(sled, NotesIdsKey) = {1}
    /\ Len(notes) = 1
    /\ notes[1].uuid = UuidText(2)

(***************************************************************************)
(* fetch_tree_leaves as a state machine: the loop asks the ledger page by  *)
(* page.  The ledger holds a number of leaves and answers a request with   *)
(* the leaves of a range of positions, by one of the two conventions for   *)
(* the end of a range.                                                     *)
(***************************************************************************)
MaxLedgerPages == 3

\* the number of pages after which the next "to += 511" does not fit a u32
LatePage == 8405023

\* 511 * j as a u32
PageStart(j) == MulAdd(UOf(j, U32Bytes), PageSize, 0).value

SmallLedgerSizes ==
    {UOf(PageSize * p + d, UsizeBytes) : p \in 1..MaxLedgerPages, d \in {0, 1, 2}}
    \cup {UOf(PageSize * p - 1, UsizeBytes) : p \in 1..MaxLedgerPages}
    \cup {UOf(d, UsizeBytes) : d \in {0, 1}}

\* 511 * LatePage, one more, and 2^32: the leaves of a full tree of depth 32
LargeLedgerSizes ==
    {Widen(PageStart(LatePage)),
     MulAdd(Widen(PageStart(LatePage)), 1, 1).value,
     MulAdd(Widen(UMax(U32Bytes)), 1, 1).value}

Ledgers ==
    [size : SmallLedgerSizes, range : {"half_open", "closed"}]
    \cup [size : LargeLedgerSizes, range : {"half_open"}]

\* the loop after j pages that held leaves, over a ledger that answers with
\* the positions from <= i < to: where the loop of a large ledger is taken up
FetchAfter(l, j) ==
    [FetchStart EXCEPT !.from = PageStart(j),
                       !.to = PageStart(j + 1),
                       !.total_leaves = Run(UZero(UsizeBytes),
                                            UMin(l.size, Widen(PageStart(j)))),
                       !.requests = j]

FetchInit ==
    /\ DbStart
    /\ NoteIdle
    /\ Idle("fetch")
    /\ ledger \in Ledgers
    /\ fetch = IF ledger.size \in LargeLedgerSizes
               THEN FetchAfter(ledger, LatePage)
               ELSE FetchStart

\* rpc_client.request("merkle_treeLeaves", [tree_id, from, to]).await
request ==
    /\ fetch.pc = "request"
    /\ fetch' = [fetch EXCEPT !.pc = "response",
                              !.leaves = TreeLeaves(ledger, fetch.from, fetch.to),
                              !.requests = @ + 1,
                              !.empty_seen = @ \/ TreeLeaves(ledger, fetch.from, fetch.to) = <<>>,
                              !.after_empty = @ \/ fetch.empty_seen]
    /\ UNCHANGED <<ledger, mixerVars, chainVars, mainVars, noteVars, dbVars, ctxVars, steps>>

\* if leaves.is_empty() { break; } and then Ok(total_leaves)
break_loop ==
    /\ fetch.pc = "response"
    /\ IsLastPage(fetch.leaves)
    /\ fetch' = [fetch EXCEPT !.pc = "done"]
    /\ UNCHANGED <<ledger, mixerVars, chainVars, mainVars, noteVars, dbVars, ctxVars, steps>>

\* total_leaves.extend(..); from = to; to += 511, in a build with overflow
\* checks (the addition panics) or without (the addition wraps)
extend_leaves(overflow_checks) ==
    /\ fetch.pc = "response"
    /\ ~IsLastPage(fetch.leaves)
    /\ fetch' = IF NextTo(fetch.to).carry # 0 /\ overflow_checks
                THEN [fetch EXCEPT !.pc = "panicked",
                                   !.total_leaves = Extend(fetch.total_leaves, fetch.leaves),
                                   !.from = NextFrom(fetch.to),
                                   !.overflowed = TRUE]
                ELSE [fetch EXCEPT !.pc = "request",
                                   !.total_leaves = Extend(fetch.total_leaves, fetch.leaves),
                                   !.from = NextFrom(fetch.to),
                                   !.to = NextTo(fetch.to).value,
                                   !.overflowed = @ \/ NextTo(fetch.to).carry # 0]
    /\ UNCHANGED <<ledger, mixerVars, chainVars, mainVars, noteVars, dbVars, ctxVars, steps>>

FetchNext ==
    \/ request
    \/ break_loop
    \/ \E overflow_checks \in BOOLEAN : extend_leaves(overflow_checks)

FetchSpec == FetchInit /\ [][FetchNext]_vars

\* the ledger answers every request and the loop goes on
FetchLive == FetchSpec /\ WF_vars(FetchNext)

\* the leaves of the ledger, in the order of the ledger
WholeLedger(l) == Run(UZero(UsizeBytes), l.size)

\* a <= b
ULeq(a, b) == ~ULess(b, a)

NoOverflowLedger == ULeq(ledger.size, Widen(PageStart(LatePage)))

FetchSafe ==
    /\ ~fetch.overflowed
    /\ fetch.pc # "panicked"
    /\ ~fetch.after_empty
    /\ fetch.pc = "done" => fetch.leaves = <<>>

MaxTreeLeaves == 4

MaxBatches == 2

MixerIds == {0, 7}

\* the leaves of the ledger: the zero scalar and another one
LeafValues == {Rep(0, ScalarLen), Rep(1, ScalarLen)}

RECURSIVE SeqsOf(_, _)
SeqsOf(S, n) ==
    IF n = 0 THEN {<<>>}
    ELSE {<<x>> \o t : x \in S, t \in SeqsOf(S, n - 1)}

Batches == UNION {SeqsOf(LeafValues, n) : n \in 1..MaxTreeLeaves}

\* the r and the nullifier of the notes saved
MixerNotes ==
    {[mixer_id |-> 0, r |-> Rep(1, ScalarLen), nullifier |-> Rep(2, ScalarLen)],
     [mixer_id |-> 7, r |-> Rep(1, ScalarLen), nullifier |-> Rep(2, ScalarLen)],
     [mixer_id |-> 0, r |-> Rep(2, ScalarLen), nullifier |-> Rep(1, ScalarLen)]}

\* a Mixer and what was asked of it since it was built: the batches given
\* to add_leaves, the root after each, the notes given to save_note with
\* the leaf returned
Tracked(mixer, given, roots, saved) ==
    [mixer |-> mixer, given |-> given, roots |-> roots, saved |-> saved]

MixerInit ==
    /\ DbStart
    /\ NoteIdle
    /\ Idle("mixer")
    /\ MixerIdle

\* Mixer::new(id)
mixer_new(id) ==
    /\ mixers' = [i \in DOMAIN mixers \cup {id} |->
                    IF i = id THEN Tracked(MixerNew(id), <<>>, <<>>, {})
                    ELSE mixers[i]]
    /\ mres' = [call |-> "new", id |-> id, value |-> <<>>]
    /\ UNCHANGED <<fetchVars, chainVars, mainVars, noteVars, dbVars, ctxVars, steps>>

\* mixer.add_leaves(leaves), and mixer.root() after it
add_leaves(id, leaves) ==
    /\ id \in DOMAIN mixers
    /\ Len(mixers[id].given) < MaxBatches
    /\ Len(mixers[id].mixer.tree.leaves) + Len(leaves) <= MaxTreeLeaves
    /\ \E after \in {MixerAddLeaves(mixers[id].mixer, leaves)} :
          /\ mixers' = [mixers EXCEPT ![id] =
                           Tracked(after, Append(mixers[id].given, leaves),
                                   Append(mixers[id].roots, MixerRoot(after)),
                                   mixers[id].saved)]
          /\ mres' = [call |-> "add_leaves", id |-> id, value |-> MixerRoot(after)]
    /\ UNCHANGED <<fetchVars, chainVars, mainVars, noteVars, dbVars, ctxVars, steps>>

\* mixer.save_note(note)
save_note(id, n) ==
    /\ id \in DOMAIN mixers
    /\ \E r \in {MixerSaveNote(mixers[id].mixer, n)} :
          /\ mixers' = [mixers EXCEPT ![id] =
                           Tracked(r.mixer, mixers[id].given, mixers[id].roots,
                                   mixers[id].saved \cup
                                       {[note |-> n, leaf |-> r.leaf,
                                         nullifier_hash |->
                                             IF r.leaf \in DOMAIN r.mixer.secrets
                                             THEN r.mixer.secrets[r.leaf].nullifier_hash
                                             ELSE <<>>]})]
          /\ mres' = [call |-> "save_note", id |-> id, value |-> r.leaf]
    /\ UNCHANGED <<fetchVars, chainVars, mainVars, noteVars, dbVars, ctxVars, steps>>

MixerNext ==
    \/ \E id \in MixerIds : mixer_new(id)
    \/ \E id \in MixerIds, leaves \in Batches : add_leaves(id, leaves)

MixerSpec == MixerInit /\ [][MixerNext]_vars

RECURSIVE Flatten(_)
Flatten(batches) ==
    IF batches = <<>> THEN <<>> ELSE Head(batches) \o Flatten(Tail(batches))

\* the leaves given to a Mixer by its first k calls of add_leaves
GivenUpTo(id, k) == Flatten(SubSeq(mixers[id].given, 1, k))

\* the root of a Mixer before its k-th call of add_leaves
RootBefore(id, k) == IF k = 1 THEN MixerRoot(MixerNew(id)) ELSE mixers[id].roots[k - 1]

\* add_leaves keeps the leaves of the tree and appends the batch in its order
AppendOnly ==
    \A id \in DOMAIN mixers :
        /\ Len(mixers[id].mixer.tree.leaves) = Len(GivenUpTo(id, Len(mixers[id].given)))
        /\ \A i \in 1..Len(mixers[id].mixer.tree.leaves) :
              mixers[id].mixer.tree.leaves[i]
                  = ScalarOf(GivenUpTo(id, Len(mixers[id].given))[i])

\* the same leaves in the same order give the same root, in however many
\* batches they were added
BatchEqualsIncremental ==
    \A i, j \in DOMAIN mixers :
        \A k \in 1..Len(mixers[i].given), l \in 1..Len(mixers[j].given) :
            GivenUpTo(i, k) = GivenUpTo(j, l) => mixers[i].roots[k] = mixers[j].roots[l]

SaveNext ==
    \/ \E id \in MixerIds : mixer_new(id)
    \/ \E id \in MixerIds, leaves \in SeqsOf(LeafValues, 1) : add_leaves(id, leaves)
    \/ \E id \in MixerIds, n \in MixerNotes : save_note(id, n)

SaveSpec == MixerInit /\ [][SaveNext]_vars

MaxBlocks == 3

\* secret_note.mixer_id: the commands run on one mixer
NoteMixerId == 0

\* r and nullifier are the two halves of the secret of a note
NoteOfSecret(secret_bytes) ==
    [mixer_id |-> NoteMixerId,
     r |-> SubSeq(secret_bytes, 1, ScalarLen),
     nullifier |-> SubSeq(secret_bytes, ScalarLen + 1, 2 * ScalarLen)]

\* context.notes().iter().filter(|n| !n.used)
UnusedNotes(loaded) == SelectSeq(loaded, LAMBDA n : ~n.used)

\* context.notes().iter().filter(|n| n.used)
UsedNotes(loaded) == SelectSeq(loaded, LAMBDA n : n.used)

\* notes.into_iter().find(|n| n.alias == val)
RECURSIVE FindAlias(_, _)
FindAlias(list, val) ==
    IF list = <<>> THEN None
    ELSE IF Head(list).alias = val THEN Some(Head(list))
    ELSE FindAlias(Tail(list), val)

\* the note of the alias given, or the i-th of the list shown
SelectNote(list, alias, i) ==
    IF alias # None THEN FindAlias(list, alias[1]) ELSE Some(list[i])

\* the choices the user has: an alias and no index, or an index of the list
CanSelect(list, alias, i) ==
    IF alias # None \/ list = <<>> THEN i = 1 ELSE i \in 1..Len(list)

\* ExecutionContext::default_account
DefaultAccount(loaded) == SelectSeq(loaded, LAMBDA a : a.is_default)

\* the seed read: Sr25519Pair::from_seed_slice
SignerOfSeed(seed) ==
    IF seed.kind # "Ok" THEN [ok |-> FALSE, err |-> seed.err, value |-> <<>>]
    ELSE IF seed.value = None
    THEN [ok |-> FALSE, err |-> "signer encrypted seed", value |-> <<>>]
    ELSE IF Len(seed.value[1]) # SeedLen
    THEN [ok |-> FALSE, err |-> "failed to create keypair from seed", value |-> <<>>]
    ELSE [ok |-> TRUE, err |-> "", value |-> seed.value[1]]

\* ExecutionContext::signer
Signer(db, pass, loaded) ==
    IF DefaultAccount(loaded) = <<>>
    THEN [ok |-> FALSE, err |-> "must have a default account", value |-> <<>>]
    ELSE SignerOfSeed(DbRead(db, pass, DefaultAccount(loaded)[1].uuid \o SeedSuffix))

\* the metadata decoded, the encrypted secret read and the value parsed
DecryptedNote(raw, sec, parsed_note) ==
    IF ~raw.ok
    THEN [ok |-> FALSE, err |-> "failed to decode Protobuf message", value |-> <<>>]
    ELSE IF sec.kind # "Ok" THEN [ok |-> FALSE, err |-> sec.err, value |-> <<>>]
    ELSE IF sec.value = None
    THEN [ok |-> FALSE, err |-> "finding the encrypted note", value |-> <<>>]
    ELSE IF Len(sec.value[1]) # SecretLen
    THEN [ok |-> FALSE, err |-> "invalid secret bytes (not 64 bytes)", value |-> <<>>]
    ELSE IF parsed_note.kind # "Ok"
    THEN [ok |-> FALSE, err |-> parsed_note.err, value |-> <<>>]
    ELSE [ok |-> TRUE, err |-> "", value |-> sec.value[1]]

\* ExecutionContext::decrypt_note: the secret of the Note returned
DecryptNote(db, pass, uuid) ==
    IF uuid \notin DOMAIN db
    THEN [ok |-> FALSE, err |-> "note not found", value |-> <<>>]
    ELSE \* the three reads, each evaluated once
         CHOOSE r \in {DecryptedNote(raw, DbRead(db, pass, uuid \o SecretSuffix),
                                     NoteFromStr(raw.value.value)) :
                          raw \in {DecodeNoteRaw(Bytes(DbReadPlaintext(db, uuid).value[1]))}} :
             TRUE

\* the roots of the tree after each of the leaves vals is inserted
RECURSIVE RootsAfter(_, _)
RootsAfter(tree, vals) ==
    IF vals = <<>> THEN <<>>
    ELSE <<TreeInsert(tree, Head(vals)).root>>
             \o RootsAfter(TreeInsert(tree, Head(vals)), Tail(vals))

\* the ledger produces a block with the deposits vals: the roots the tree
\* takes in the block are cached under its number; in a block without
\* deposits the ledger caches the root of the tree (cache_idle) or nothing
ChainBlock(ch, vals, cache_idle) ==
    [number |-> ch.number + 1,
     tree |-> TreeAddLeaves(ch.tree, vals),
     cached |-> IF vals = <<>> /\ ~cache_idle THEN ch.cached
                ELSE [b \in DOMAIN ch.cached \cup {ch.number + 1} |->
                         IF b = ch.number + 1
                         THEN IF vals = <<>> THEN <<ch.tree.root>>
                              ELSE RootsAfter(ch.tree, vals)
                         ELSE ch.cached[b]]]

\* the leaves of the tree of the ledger, as merkle_treeLeaves returns them
ChainLeaves(ch) == [i \in 1..Len(ch.tree.leaves) |-> ch.tree.leaves[i][2]]

\* what DepositAsset::exec returns and leaves behind
DepositOutcome(ok, err, st, pass, ch, uuid, accepted, marked) ==
    [ok |-> ok, err |-> err, st |-> st, pass |-> pass, chain |-> ch,
     uuid |-> uuid, accepted |-> accepted, marked |-> marked]

\* DepositAsset::exec from the deposit on: the ledger has accepted the leaf
\* in a block, the note is marked used
DepositAccepted(st, pass, ch, uuid, leaf, cache_idle) ==
    \* mark_note_as_used evaluated once
    CHOOSE r \in {DepositOutcome(m.ok, m.err, m.st, pass,
                                 ChainBlock(ch, <<leaf>>, cache_idle), uuid, TRUE, m.ok) :
                     m \in {MarkNoteAsUsed(st, uuid)}} : TRUE

\* a deposit that marks the note used before the ledger has answered
DepositNote_MarkingFirst(st, pass, loaded_accounts, ch, n, accepted, cache_idle) ==
    IF ~Signer(st.sled, pass, loaded_accounts).ok
    THEN DepositOutcome(FALSE, "incorrect default account password!", st, pass, ch,
                        n.uuid, FALSE, FALSE)
    ELSE IF ~DecryptNote(st.sled, pass, n.uuid).ok
    THEN DepositOutcome(FALSE, DecryptNote(st.sled, pass, n.uuid).err, st, pass, ch,
                        n.uuid, FALSE, FALSE)
    ELSE IF ~accepted
    THEN DepositOutcome(FALSE, "deposit_and_watch", MarkNoteAsUsed(st, n.uuid).st,
                        pass, ch, n.uuid, FALSE, MarkNoteAsUsed(st, n.uuid).ok)
    ELSE DepositAccepted(st, pass, ch, n.uuid,
                         MixerSaveNote(MixerNew(NoteMixerId),
                                       NoteOfSecret(DecryptNote(st.sled, pass, n.uuid).value)).leaf,
                         cache_idle)

\* DepositAsset::exec from the selection of the note on
DepositNote(st, pass, loaded_accounts, ch, n, accepted, cache_idle) ==
    IF ~Signer(st.sled, pass, loaded_accounts).ok
    THEN DepositOutcome(FALSE, "incorrect default account password!", st, pass, ch,
                        n.uuid, FALSE, FALSE)
    ELSE CHOOSE r \in
            {IF ~secret_note.ok
             THEN DepositOutcome(FALSE, secret_note.err, st, pass, ch, n.uuid, FALSE, FALSE)
             ELSE IF ~accepted
             THEN DepositOutcome(FALSE, "deposit_and_watch", st, pass, ch, n.uuid,
                                 FALSE, FALSE)
             ELSE DepositAccepted(st, pass, ch, n.uuid,
                                  MixerSaveNote(MixerNew(NoteMixerId),
                                                NoteOfSecret(secret_note.value)).leaf,
                                  cache_idle) :
                secret_note \in {DecryptNote(st.sled, pass, n.uuid)}} : TRUE

\* DepositAsset::exec
DepositAsset(st, pass, loaded_accounts, loaded_notes, alias, i, password, accepted, cache_idle, ch) ==
    IF UnusedNotes(loaded_notes) = <<>>
    THEN DepositOutcome(TRUE, "", st, pass, ch, <<>>, FALSE, FALSE)
    ELSE IF SelectNote(UnusedNotes(loaded_notes), alias, i) = None
    THEN DepositOutcome(FALSE, "note not found", st, pass, ch, <<>>, FALSE, FALSE)
    ELSE DepositNote(st, IF pass = None THEN Some(password) ELSE pass,
                     loaded_accounts, ch,
                     SelectNote(UnusedNotes(loaded_notes), alias, i)[1],
                     accepted, cache_idle)

\* the root of the tree the Mixer built, used in place of the cached one
WithdrawRoot_OwnTree(roots, mixer) == MixerRoot(mixer)

\* roots.first()
WithdrawRoot(roots, mixer) == roots[1]

\* Mixer::generate_proof(root, leaf): what the proof was generated against
MixerGenerateProof(mixer, root, leaf) ==
    [root |-> root, leaf |-> leaf,
     nullifier_hash |-> IF leaf \in DOMAIN mixer.secrets
                        THEN mixer.secrets[leaf].nullifier_hash ELSE Zero(0)]

\* what the first part of WithdrawAsset::exec returns: done when the
\* command has returned
WithdrawOutcome(done, ok, err, pass, uuid, leaf, mixer) ==
    [done |-> done, ok |-> ok, err |-> err, pass |-> pass, uuid |-> uuid,
     leaf |-> leaf, mixer |-> mixer]

\* WithdrawAsset::exec from the selection of the note to mixer.add_leaves
WithdrawNote(st, pass, loaded_accounts, ch, n) ==
    IF ~Signer(st.sled, pass, loaded_accounts).ok
    THEN WithdrawOutcome(TRUE, FALSE, "incorrect default account password!", pass,
                         n.uuid, Zero(0), MixerNew(0))
    ELSE CHOOSE r \in
            {IF ~secret_note.ok
             THEN WithdrawOutcome(TRUE, FALSE, secret_note.err, pass, n.uuid, Zero(0),
                                  MixerNew(0))
             ELSE CHOOSE w \in
                     {WithdrawOutcome(FALSE, TRUE, "", pass, n.uuid, saved.leaf,
                                      MixerAddLeaves(saved.mixer, ChainLeaves(ch))) :
                         saved \in {MixerSaveNote(MixerNew(NoteMixerId),
                                                  NoteOfSecret(secret_note.value))}} : TRUE :
                secret_note \in {DecryptNote(st.sled, pass, n.uuid)}} : TRUE

\* WithdrawAsset::exec up to mixer.add_leaves(leaves)
WithdrawAsset(st, pass, loaded_accounts, loaded_notes, alias, i, password, ch) ==
    IF UsedNotes(loaded_notes) = <<>>
    THEN WithdrawOutcome(TRUE, TRUE, "", pass, <<>>, Zero(0), MixerNew(0))
    ELSE IF SelectNote(UsedNotes(loaded_notes), alias, i) = None
    THEN WithdrawOutcome(TRUE, FALSE, "note not found", pass, <<>>, Zero(0), MixerNew(0))
    ELSE WithdrawNote(st, IF pass = None THEN Some(password) ELSE pass,
                      loaded_accounts, ch,
                      SelectNote(UsedNotes(loaded_notes), alias, i)[1])

\* the passphrase of the default account
AccountPassphrase == "correct horse"

\* a leaf another client deposits
ForeignLeaf == Rep(1, ScalarLen)

\* the store after set_secret and generate_account on an empty store, in
\* a run of the program that has ended
InitialAccount ==
    CHOOSE r \in {SaveAccount(Store(<< >>, << >>), Some(AccountPassphrase), <<>>,
                              alias, UuidText(0), keys, nonce) :
                     alias \in Aliases, keys \in GeneratedKeys, nonce \in CtxNonces} : TRUE

\* the program starts over the store that holds the default account
CmdInit ==
    /\ sled = InitialAccount.st.sled
    /\ origin = InitialAccount.st.origin
    /\ secret = None
    /\ dpc = "new"
    /\ dkey = <<>>
    /\ dres = NoDbResult
    /\ accounts = LoadAccounts(InitialAccount.st.sled).value
    /\ notes = <<>>
    /\ cpc = "new"
    /\ cres = [ok |-> TRUE, err |-> "", value |-> <<>>]
    /\ uuids = 0
    /\ handed = {keys.seed : keys \in GeneratedKeys}
    /\ failed = FALSE
    /\ NoteIdle
    /\ Idle("chain")
    /\ chain = ChainStart
    /\ cmd = CmdIdle
    /\ hist = NoHistory

\* main has built the context and no command has run on it
StartOfProcess == cmd.pc = "idle" /\ cpc \in {"new", "set_secret"}

\* the ledger produces a block, with the deposit of another client or none
ledger_block(vals, cache_idle) ==
    /\ chain.number < MaxBlocks
    /\ vals # <<>> => cache_idle
    /\ chain' = ChainBlock(chain, vals, cache_idle)
    /\ UNCHANGED <<cmd, hist, fetchVars, mixerVars, mainVars, noteVars, dbVars, ctxVars, steps>>

\* DepositAsset::exec
deposit(alias, i, password, accepted) ==
    /\ StartOfProcess
    /\ CanSelect(UnusedNotes(notes), alias, i)
    /\ accepted => chain.number < MaxBlocks
    /\ \E r \in {DepositAsset(CtxStore, secret, accounts, notes, alias, i, password,
                             accepted, TRUE, chain)} :
          /\ sled' = r.st.sled
          /\ origin' = r.st.origin
          /\ secret' = r.pass
          /\ chain' = r.chain
          /\ cres' = [ok |-> r.ok, err |-> r.err, value |-> <<>>]
          /\ failed' = (failed \/ ~r.ok)
          /\ hist' = [hist EXCEPT
                         !.accepted = IF r.accepted THEN @ \cup {r.uuid} ELSE @,
                         !.marked = IF r.marked THEN @ \cup {r.uuid} ELSE @]
    /\ cpc' = "deposit"
    /\ UNCHANGED <<dpc, dkey, dres, accounts, notes, uuids, handed, cmd>>
    /\ UNCHANGED <<fetchVars, mixerVars, mainVars, noteVars, steps>>

\* WithdrawAsset::exec up to mixer.add_leaves(leaves)
withdraw(alias, i, password) ==
    /\ StartOfProcess
    /\ CanSelect(UsedNotes(notes), alias, i)
    /\ \E r \in {WithdrawAsset(CtxStore, secret, accounts, notes, alias, i, password,
                              chain)} :
          /\ secret' = r.pass
          /\ cres' = [ok |-> r.ok, err |-> r.err, value |-> <<>>]
          /\ failed' = (failed \/ ~r.ok)
          /\ cmd' = IF r.done THEN CmdIdle
                    ELSE [CmdIdle EXCEPT !.pc = "block", !.uuid = r.uuid,
                                         !.leaf = r.leaf, !.mixer = r.mixer]
    /\ cpc' = "withdraw"
    /\ UNCHANGED <<sled, origin, dpc, dkey, dres, accounts, notes, uuids, handed>>
    /\ UNCHANGED <<chain, hist, fetchVars, mixerVars, mainVars, noteVars, steps>>

\* client.block_hash(None), client.block(recent_hash)
withdraw_block ==
    /\ cmd.pc = "block"
    /\ cmd' = [cmd EXCEPT !.pc = "roots", !.recent = chain.number]
    /\ UNCHANGED <<chain, hist, fetchVars, mixerVars, mainVars, noteVars, dbVars, ctxVars, steps>>

\* client.fetch(&CachedRoots::new(recent.block.header.number, ..), None)
\* and roots.first()
withdraw_roots ==
    /\ cmd.pc = "roots"
    /\ IF cmd.recent \in DOMAIN chain.cached /\ chain.cached[cmd.recent] # <<>>
       THEN /\ cmd' = [cmd EXCEPT !.pc = "proof",
                                  !.root = WithdrawRoot(chain.cached[cmd.recent],
                                                        cmd.mixer)]
            /\ UNCHANGED <<cres, failed>>
       ELSE /\ cmd' = CmdIdle
            /\ cres' = [ok |-> FALSE, err |-> "no cached roots on the block!",
                        value |-> <<>>]
            /\ failed' = TRUE
    /\ UNCHANGED <<accounts, notes, cpc, uuids, handed>>
    /\ UNCHANGED <<chain, hist, fetchVars, mixerVars, mainVars, noteVars, dbVars, steps>>

\* the note forgotten before the ledger has answered
WithdrawAndForget_ForgetFirst(st, uuid, accepted) ==
    IF accepted THEN ForgetNote(st, uuid)
    ELSE CtxErr("withdraw_and_watch", ForgetNote(st, uuid).st)

\* client.withdraw_and_watch(..).await?, then context.forget_note(note.uuid)
WithdrawAndForget(st, uuid, accepted) ==
    IF accepted THEN ForgetNote(st, uuid)
    ELSE CtxErr("withdraw_and_watch", st)

\* mixer.generate_proof(root, leaf), withdraw_and_watch and forget_note
withdraw_proof(accepted, cache_idle) ==
    /\ cmd.pc = "proof"
    /\ accepted => chain.number < MaxBlocks
    /\ ~accepted => cache_idle
    /\ \E r \in {WithdrawAndForget(CtxStore, cmd.uuid, accepted)} :
          /\ sled' = r.st.sled
          /\ origin' = r.st.origin
          /\ cres' = Returned(r)
          /\ failed' = (failed \/ ~r.ok)
          /\ hist' = [hist EXCEPT
                         !.submitted = @ \cup
                             {[cached_root |-> cmd.root, cached_block |-> cmd.recent,
                               proof |-> MixerGenerateProof(cmd.mixer, cmd.root, cmd.leaf)]},
                         !.withdrawn = IF accepted /\ r.ok THEN @ \cup {cmd.uuid} ELSE @]
    /\ chain' = IF accepted THEN ChainBlock(chain, <<>>, cache_idle) ELSE chain
    /\ cmd' = CmdIdle
    /\ UNCHANGED <<secret, dpc, dkey, dres, accounts, notes, cpc, uuids, handed>>
    /\ UNCHANGED <<fetchVars, mixerVars, mainVars, noteVars, steps>>

CmdNext ==
    \/ StartOfProcess /\ cpc = "new" /\ context_set_secret(AccountPassphrase)
    \/ StartOfProcess /\ \E alias \in Aliases, n \in CrashNotes, nonce \in CtxNonces :
          import_note(alias, n, nonce)
    \/ \E alias \in {None} \cup {Some(a) : a \in Aliases}, i \in 1..MaxUuids,
          password \in Passphrases, accepted \in BOOLEAN :
          deposit(alias, i, password, accepted)
    \/ \E alias \in {None} \cup {Some(a) : a \in Aliases}, i \in 1..MaxUuids,
          password \in Passphrases :
          withdraw(alias, i, password)
    \/ withdraw_block
    \/ withdraw_roots
    \/ \E accepted \in BOOLEAN : withdraw_proof(accepted, ~accepted)
    \/ ledger_block(<<ForeignLeaf>>, TRUE)
    \/ cmd.pc = "idle" /\ cpc # "new" /\ new

CmdSpec == CmdInit /\ [][CmdNext]_vars

\* the roots of a cached entry
RootsOf(roots) == {roots[k] : k \in 1..Len(roots)}

Selectable(list) ==
    IF StartOfProcess THEN {list[k].uuid : k \in 1..Len(list)} ELSE {}

SelectableForDeposit == Selectable(UnusedNotes(notes))

SelectableForWithdraw == Selectable(UsedNotes(notes))

\* C18: a note is selectable for withdrawal only after a deposit of it was
\* accepted by the ledger and it was marked used; once marked used it is
\* never again selectable for deposit; after a successful withdrawal it is
\* selectable for neither.
C18_NoteLifecycle ==
    /\ SelectableForWithdraw \subseteq (hist.accepted \cap hist.marked)
    /\ hist.marked \cap SelectableForDeposit = {}
    /\ hist.withdrawn \cap (SelectableForDeposit \cup SelectableForWithdraw) = {}

\* a command starts with one note withdrawn, which it does not list, and
\* another deposited and marked used, which it lists for withdrawal only
C18_Witness ==
    /\ hist.withdrawn # {}
    /\ SelectableForWithdraw # {}
    /\ SelectableForDeposit = {}
    /\ Len(Listed(sled, NotesIdsKey).ids) = 2

(***************************************************************************)
(* src/src/note.rs: a Note is zeroized, then serialized and parsed, as     *)
(* import_note does before it stores the text of the note.                 *)
(***************************************************************************)
\* note.zeroize()
zeroize ==
    /\ npc = "note"
    /\ note[1].secret # Rep(0, SecretLen)
    /\ note' = Some(Zeroize(note[1]))
    /\ UNCHANGED <<npc, text, parsed>>
    /\ UNCHANGED <<dbVars, ctxVars, cmdVars, steps>>

ZeroNext == zeroize \/ to_string \/ from_str

ZeroSpec == NoteInit /\ [][ZeroNext]_vars

\* the fields of a Note other than its secret
NonSecretFields ==
    {"prefix", "version", "target_chain_id", "source_chain_id", "backend",
     "hash_function", "curve", "exponentiation", "width", "token_symbol",
     "amount", "denomination"}

\* C19: zeroizing a Note sets its 64 secret bytes to zero and leaves its
\* other twelve fields as they were.
C19_ZeroizeFrame ==
    [][(note # None /\ note' # note)
          => /\ note'[1].secret = Rep(0, SecretLen)
             /\ Len(note'[1].secret) = SecretLen
             /\ \A f \in NonSecretFields : note'[1][f] = note[1][f]]_vars

\* a Note was zeroized and then serialized: its text shows the fields it
\* had and a secret of zeros
C19_Witness ==
    /\ npc = "serialized"
    /\ note[1].secret = Rep(0, SecretLen)
    /\ note[1].token_symbol = <<"T", "E", "S", "T">>
    /\ note[1].prefix = "Bridge"
    /\ ZeroSecretField(text)

(***************************************************************************)
(* src/src/main.rs: main reads the password options, opens the datastore   *)
(* and runs the command.                                                   *)
(***************************************************************************)
PasswordFiles == {<<"p", "a", "s", "s">>}

\* the options clap can hand over, and the ones it rejects
Args ==
    [password_interactive : BOOLEAN,
     password_filename : {None} \cup {Some(f) : f \in PasswordFiles},
     password : {None} \cup {Some(p) : p \in Passphrases},
     unsafe_flag : BOOLEAN]

\* conflicts_with_all: at most one of the three password options
Conflicting(args) ==
    \/ args.password_interactive /\ args.password_filename # None
    \/ args.password_interactive /\ args.password # None
    \/ args.password_filename # None /\ args.password # None

\* what the user types at the prompt, and what the password file holds
Answers ==
    {[ok |-> TRUE, value |-> p] : p \in Passphrases} \cup {[ok |-> FALSE, value |-> ""]}

\* the argon2 hash of a password, as the password hash file holds it
PasswordHashOf(p) == <<"argon2", p>>

\* anyhow::Result<Option<SecretString>>
MainOk(v) == [ok |-> TRUE, err |-> "", value |-> v]

MainErr(e) == [ok |-> FALSE, err |-> e, value |-> None]

\* password that takes the password of the options whatever the flag
Password_IgnoringUnsafe(args, asked, file) ==
    IF args.password_interactive
    THEN IF asked.ok THEN MainOk(Some(asked.value)) ELSE MainErr("prompt")
    ELSE IF args.password_filename # None
    THEN IF file.ok THEN MainOk(Some(file.value)) ELSE MainErr("reading password file")
    ELSE MainOk(args.password)

\* fn password(args: &Opts)
Password(args, asked, file) ==
    IF args.password_interactive
    THEN IF asked.ok THEN MainOk(Some(asked.value)) ELSE MainErr("prompt")
    ELSE IF args.password_filename # None
    THEN IF file.ok THEN MainOk(Some(file.value)) ELSE MainErr("reading password file")
    ELSE IF args.password # None /\ args.unsafe_flag THEN MainOk(args.password)
    ELSE IF args.password # None /\ ~args.unsafe_flag
    THEN MainErr("Passing passwords in the options is not recommened.")
    ELSE MainOk(None)

\* utils::get_password(home, Some(secret)): the password, and the password
\* hash file after the call
GetPassword(hash, p) ==
    IF hash # None
    THEN IF hash[1] = PasswordHashOf(p)
         THEN [ok |-> TRUE, err |-> "", value |-> Some(p), hash |-> hash]
         ELSE [ok |-> FALSE, err |-> "Password mismatch", value |-> None, hash |-> hash]
    ELSE [ok |-> TRUE, err |-> "", value |-> Some(p), hash |-> Some(PasswordHashOf(p))]

\* main is started with its options
MainInit ==
    /\ DbStart
    /\ NoteIdle
    /\ Idle("main")
    /\ main \in {MainStart(args, hash) :
                    args \in Args,
                    hash \in {None} \cup {Some(PasswordHashOf(p)) : p \in Passphrases}}

\* structopt parses the options
parse_args ==
    /\ main.pc = "start"
    /\ main' = IF Conflicting(main.args)
               THEN [main EXCEPT !.pc = "exit", !.err = "conflicts_with_all"]
               ELSE [main EXCEPT !.pc = "args"]
    /\ UNCHANGED <<fetchVars, mixerVars, chainVars, noteVars, dbVars, ctxVars, steps>>

\* password(&args)?
read_password(asked, file) ==
    /\ main.pc = "args"
    /\ \E r \in {Password(main.args, asked, file)} :
          main' = IF r.ok THEN [main EXCEPT !.pc = "password", !.got = r.value]
                  ELSE [main EXCEPT !.pc = "exit", !.err = r.err]
    /\ UNCHANGED <<fetchVars, mixerVars, chainVars, noteVars, dbVars, ctxVars, steps>>

\* SledDatastore::with_secret(utils::get_password(..)?) or SledDatastore::new()
open_datastore ==
    /\ main.pc = "password"
    /\ IF main.got = None
       THEN /\ main' = [main EXCEPT !.pc = "opened", !.opened = TRUE]
            /\ secret' = None
       ELSE \E r \in {GetPassword(main.hash, main.got[1])} :
               /\ main' = IF r.ok
                          THEN [main EXCEPT !.pc = "opened", !.opened = TRUE,
                                            !.hash = r.hash]
                          ELSE [main EXCEPT !.pc = "exit", !.err = r.err]
               /\ secret' = r.value
    /\ dpc' = "new"
    /\ UNCHANGED <<sled, origin, dkey, dres>>
    /\ UNCHANGED <<fetchVars, mixerVars, chainVars, noteVars, ctxVars, steps>>

\* ExecutionContext::new(db, dirs)?, then the command
run_command ==
    /\ main.pc = "opened"
    /\ \E c \in {NewContext(LoadAccounts(sled), LoadNotes(sled))} :
          /\ accounts' = c.accounts
          /\ notes' = c.notes
          /\ cres' = [ok |-> c.ok, err |-> c.err, value |-> <<>>]
          /\ failed' = (failed \/ ~c.ok)
          /\ main' = [main EXCEPT !.pc = "exit", !.ran = c.ok]
    /\ cpc' = "new"
    /\ UNCHANGED <<uuids, handed>>
    /\ UNCHANGED <<fetchVars, mixerVars, chainVars, noteVars, dbVars, steps>>

MainNext ==
    \/ parse_args
    \/ \E asked \in Answers, file \in Answers : read_password(asked, file)
    \/ open_datastore
    \/ run_command

MainSpec == MainInit /\ [][MainNext]_vars

\* none of the three password options is given
NoPasswordOption(args) ==
    ~args.password_interactive /\ args.password_filename = None /\ args.password = None

\* C20: the password of --password is the secret of the datastore only
\* when --unsafe is given too; with --password and without --unsafe main
\* returns an error, the datastore is not opened and no command runs; with
\* none of the three password options the datastore opens without a secret.
C20_PasswordOptionNeedsUnsafe ==
    /\ (main.opened /\ main.args.password # None)
          => (main.args.unsafe_flag /\ secret = main.args.password)
    /\ (main.args.password # None /\ ~main.args.unsafe_flag)
          => /\ ~main.opened
             /\ ~main.ran
             /\ secret = None
             /\ main.pc \in {"start", "args", "exit"}
             /\ main.pc = "exit" => main.err # ""
    /\ (NoPasswordOption(main.args) /\ main.pc \in {"opened", "exit"})
          => (main.opened /\ secret = None /\ main.got = None)

\* main was given --password without --unsafe and has returned the error
\* of password()
C20_Witness ==
    /\ main.pc = "exit"
    /\ main.args.password # None
    /\ ~main.args.unsafe_flag
    /\ ~Conflicting(main.args)
    /\ main.err = "Passing passwords in the options is not recommened."

(***************************************************************************)
(* The default account                                                     *)
(***************************************************************************)
\* the uuids of the accounts the store holds: listed in the index, with
\* their metadata record
StoredAccounts(db) == {id \in ListedIds(db, AccountIdsKey) : id \in DOMAIN db}

\* the AccountRaw stored under a uuid
StoredAccount(db, uuid) == DecodeAccountRaw(Bytes(db[uuid])).value

\* C21: generate_account and import_account store the new account with
\* is_default = true exactly when no account is stored at the time of the
\* call, in any sequence of calls on one context.
C21_DefaultIffNoneStored ==
    [][(cpc' \in {"generate_account", "import_account"} /\ cres'.ok /\ uuids' # uuids)
          => (StoredAccount(sled', UuidText(uuids')).is_default
                 <=> StoredAccounts(sled) = {})]_vars


(***************************************************************************)
(* MixerCommand::ListNotes                                                 *)
(***************************************************************************)
\* <bool as Ord>::cmp: false is less than true
BoolCmp(x, y) == IF x = y THEN "Equal" ELSE IF y THEN "Less" ELSE "Greater"

\* the closure given to sort_by: |a, b| b.used.cmp(&a.used)
ListNotesCmp(a, b) == BoolCmp(b.used, a.used)

\* x put in a sorted list before the first element it is less than
RECURSIVE InsertSorted(_, _)
InsertSorted(sorted, x) ==
    IF sorted = <<>> THEN <<x>>
    ELSE IF ListNotesCmp(x, Head(sorted)) = "Less" THEN <<x>> \o sorted
    ELSE <<Head(sorted)>> \o InsertSorted(Tail(sorted), x)

\* <[NoteRaw]>::sort_by, a stable sort
RECURSIVE SortBy(_)
SortBy(list) ==
    IF list = <<>> THEN <<>>
    ELSE InsertSorted(SortBy(SubSeq(list, 1, Len(list) - 1)), list[Len(list)])

\* <NoteRaw as Display>::fmt succeeds: the value parses as a Note
Displays(n) == NoteFromStr(n.value).kind = "Ok"

\* the notes written before the first one that does not display
RECURSIVE Written(_)
Written(list) ==
    IF list = <<>> \/ ~Displays(Head(list)) THEN <<>>
    ELSE <<Head(list)>> \o Written(Tail(list))

\* MixerCommand::ListNotes: the notes written to the terminal, in order
ListNotes(loaded_notes) ==
    IF loaded_notes = <<>>
    THEN [ok |-> TRUE, err |-> "", value |-> <<>>]
    ELSE LET sorted == SortBy(loaded_notes)
         IN IF Len(Written(sorted)) = Len(sorted)
            THEN [ok |-> TRUE, err |-> "", value |-> sorted]
            ELSE [ok |-> FALSE, err |-> "formatter error", value |-> Written(sorted)]

\* a run of the client: MixerCommand::ListNotes
list_notes ==
    /\ cres' = ListNotes(notes)
    /\ cpc' = "list_notes"
    /\ UNCHANGED <<sled, secret, origin, dpc, dkey, dres>>
    /\ UNCHANGED <<accounts, notes, uuids, handed, failed, steps, noteVars, cmdVars>>

ListNext ==
    \/ context_set_secret(AccountPassphrase)
    \/ \E alias \in Aliases, n \in ImportedNotes, nonce \in CtxNonces :
          import_note(alias, n, nonce)
    \/ \E uuid \in ListedIds(sled, NotesIdsKey) : mark_note_as_used(uuid)
    \/ new
    \/ list_notes

ListSpec == CtxInit /\ [][ListNext]_vars

Unused(list) == SelectSeq(list, LAMBDA n : ~n.used)

Used(list) == SelectSeq(list, LAMBDA n : n.used)

\* C22: a ListNotes that wrote every note of the context wrote all the
\* unused notes before all the used ones, each group in the order of the
\* index.
C22_UnusedBeforeUsed ==
    (cpc = "list_notes" /\ cres.ok) => cres.value = Unused(notes) \o Used(notes)

(***************************************************************************)
(* The dash-delimited note of the mixer module                             *)
(***************************************************************************)
NOTE_PREFIX == <<"w", "e", "b", "b", ".", "m", "i", "x">>

NoteFooterLen == 128

\* a character outside ASCII: two bytes in UTF-8
Wide == "U+00E9"

\* char::len_utf8
LenUtf8(c) == IF c = Wide THEN 2 ELSE 1

\* str::len: the bytes of the text
\* the bytes of the first j characters: a character takes one byte or two
StrLenTo(s, j) ==
    Cardinality({i \in 1..j : LenUtf8(s[i]) = 1})
        + 2 * Cardinality({i \in 1..j : LenUtf8(s[i]) = 2})

StrLen(s) == StrLenTo(s, Len(s))

\* str::is_char_boundary
IsCharBoundary(s, k) == \E j \in 0..Len(s) : StrLenTo(s, j) = k

\* the characters of &s[..k] where k is a boundary
SliceTo(s, k) ==
    SubSeq(s, 1, CHOOSE j \in 0..Len(s) : StrLenTo(s, j) = k)

\* the characters of &s[k..] where k is a boundary
SliceFrom(s, k) ==
    SubSeq(s, 1 + (CHOOSE j \in 0..Len(s) : StrLenTo(s, j) = k), Len(s))

\* <mixer::Note as Display>::fmt
MixNoteToString(n) ==
    Join(<<n.prefix, <<"v", "1">>, <<"E", "D", "G">>, UToString(n.mixer_id)>>
            \o (IF n.block_number = None THEN <<>>
                ELSE <<UToString(n.block_number[1])>>)
            \o <<HexEncode(n.r) \o HexEncode(n.nullifier)>>,
         "-")

\* <mixer::Note as FromStr>::from_str from the length of the footer on
MixFooter(mixer_id, block_number, note_val) ==
    IF StrLen(note_val) # NoteFooterLen THEN NoteErr("InvalidNoteFooter", <<>>)
    ELSE IF ~IsCharBoundary(note_val, NoteFooterLen \div 2) THEN NotePanic
    ELSE IF ~HexDecode(SliceTo(note_val, NoteFooterLen \div 2)).ok
            \/ ~HexDecode(SliceFrom(note_val, NoteFooterLen \div 2)).ok
    THEN NoteErr("FromHex", <<>>)
    ELSE NoteOk([prefix |-> NOTE_PREFIX, mixer_id |-> mixer_id,
                 block_number |-> block_number,
                 r |-> HexDecode(SliceTo(note_val, NoteFooterLen \div 2)).bytes,
                 nullifier |-> HexDecode(SliceFrom(note_val, NoteFooterLen \div 2)).bytes])

\* <mixer::Note as FromStr>::from_str from the block number on
MixBlockNumber(parts, mixer_id) ==
    IF Len(parts) = 5
    THEN MixFooter(mixer_id, None, parts[5])
    ELSE IF ~UFromStr(parts[5], U32Bytes).ok
    THEN NoteErr("InvalidNoteBlockNumber", <<>>)
    ELSE MixFooter(mixer_id, Some(UFromStr(parts[5], U32Bytes).value),
                   parts[6])

\* <mixer::Note as FromStr>::from_str
MixNoteFromStr(s) ==
    LET parts == Split(s, "-")
    IN  IF Len(parts) # 5 /\ Len(parts) # 6 THEN NoteErr("InvalidNoteLength", <<>>)
        ELSE IF parts[1] # NOTE_PREFIX THEN NoteErr("InvalidNotePrefix", <<>>)
        ELSE IF parts[2] # <<"v", "1">>
        THEN NoteErr("UnsupportedNoteVersion", parts[2])
        ELSE IF parts[3] # <<"E", "D", "G">>
        THEN NoteErr("UnsupportedTokenSymbol", parts[3])
        ELSE IF ~UFromStr(parts[4], U32Bytes).ok
        THEN NoteErr("InvalidNoteMixerId", <<>>)
        ELSE MixBlockNumber(parts, UFromStr(parts[4], U32Bytes).value)

\* the notes Mixer::generate_note and from_str build
MixSampleNotes ==
    [prefix : {NOTE_PREFIX},
     mixer_id : {UOf(0, U32Bytes), UOf(7, U32Bytes), UMax(U32Bytes)},
     block_number : {None, Some(UOf(0, U32Bytes)), Some(UOf(12, U32Bytes)),
                     Some(UMax(U32Bytes))},
     r : {Rep(1, ScalarLen), [i \in 1..ScalarLen |-> (9 * i) % 256]},
     nullifier : {Rep(2, ScalarLen), Rep(255, ScalarLen)}]

MixGoodFooter == HexEncode([i \in 1..(2 * ScalarLen) |-> (5 * i + 1) % 256])

MixGoodFields ==
    <<NOTE_PREFIX, <<"v", "1">>, <<"E", "D", "G">>, <<"3">>, <<"1", "2">>,
      MixGoodFooter>>

\* other texts for each field
MixOtherFields ==
    << {<<"w", "e", "b", "b", ".", "m", "i", "x", "e", "r">>, <<>>,
        <<"W", "e", "b", "b", ".", "m", "i", "x">>},
       {<<"v", "2">>, <<"V", "1">>},
       {<<"e", "d", "g">>, <<>>},
       {<<"+", "3">>, <<"x">>, <<"4", "2", "9", "4", "9", "6", "7", "2", "9", "6">>, <<>>},
       {<<"+", "0", "1">>, <<"1", ".", "5">>},
       {SubSeq(MixGoodFooter, 1, NoteFooterLen - 1),
        MixGoodFooter \o <<"0">>,
        SubSeq(MixGoodFooter, 1, NoteFooterLen - 2),
        <<"g">> \o SubSeq(MixGoodFooter, 2, NoteFooterLen),
        Rep("A", NoteFooterLen),
        <<>>,
        \* 128 characters, 129 bytes
        <<Wide>> \o SubSeq(MixGoodFooter, 2, NoteFooterLen),
        \* 64 characters, 128 bytes
        Rep(Wide, NoteFooterLen \div 2),
        \* 127 characters, 128 bytes, one across the middle
        SubSeq(MixGoodFooter, 1, 63) \o <<Wide>> \o SubSeq(MixGoodFooter, 66, NoteFooterLen),
        \* 127 characters, 128 bytes, the wide one in the second half
        SubSeq(MixGoodFooter, 1, 64) \o <<Wide>> \o SubSeq(MixGoodFooter, 67, NoteFooterLen)} >>

\* the fields of a text: the good ones, or one of them replaced
MixFieldLists ==
    {MixGoodFields}
    \cup UNION {{[MixGoodFields EXCEPT ![i] = o] : o \in MixOtherFields[i]} : i \in 1..6}

\* texts of six fields, of five, of fewer and of more, and other separators
MixSampleTexts ==
    {Join(f, "-") : f \in MixFieldLists}
    \cup {Join(SubSeq(f, 1, 4) \o <<f[6]>>, "-") : f \in MixFieldLists}
    \cup {Join(SubSeq(MixGoodFields, 1, k), "-") : k \in 1..4}
    \cup {Join(MixGoodFields \o <<MixGoodFooter>>, "-"), <<>>,
          Join(MixGoodFields, ":")}

LegacyInit ==
    /\ DbStart
    /\ Idle("")
    /\ steps = 0
    /\ parsed = NoResult
    /\ \/ /\ npc = "note"
          /\ note \in {Some(n) : n \in MixSampleNotes}
          /\ text = <<>>
       \/ /\ npc = "text"
          /\ note = None
          /\ text \in MixSampleTexts

\* note.to_string() of a mixer::Note
mix_to_string ==
    /\ npc = "note"
    /\ text' = MixNoteToString(note[1])
    /\ npc' = "serialized"
    /\ UNCHANGED <<note, parsed>>
    /\ UNCHANGED <<dbVars, ctxVars, cmdVars, steps>>

\* mixer::Note::from_str(&text)
mix_from_str ==
    /\ npc \in {"text", "serialized"}
    /\ parsed' = MixNoteFromStr(text)
    /\ npc' = "parsed"
    /\ UNCHANGED <<note, text>>
    /\ UNCHANGED <<dbVars, ctxVars, cmdVars, steps>>

LegacyNext == mix_to_string \/ mix_from_str

LegacySpec == LegacyInit /\ [][LegacyNext]_vars

\* the text of a note parses back to the note, with five fields and with six
MixRoundTrip ==
    (npc = "parsed" /\ note # None) => parsed = NoteOk(note[1])

\* the texts the claim says from_str rejects
MixMalformed(s) ==
    \/ Len(Split(s, "-")) \notin {5, 6}
    \/ Split(s, "-")[1] # NOTE_PREFIX
    \/ Len(Split(s, "-")[Len(Split(s, "-"))]) # NoteFooterLen

\* C23: the text of a mixer::Note parses back to the note, with and without
\* a block number, and from_str returns an error for every text that has
\* neither five nor six fields, whose prefix is not webb.mix, or whose last
\* field is not 128 characters long.
C23_LegacyNote ==
    /\ MixRoundTrip
    /\ (npc = "parsed" /\ note = None /\ MixMalformed(text)) => parsed.kind = "Err"

(***************************************************************************)
(* The withdrawal against the deposits of other clients                    *)
(***************************************************************************)
\* the leaves add_leaves has put in the tree of the Mixer
InsertedLeaves(mixer) == {mixer.tree.leaves[k] : k \in 1..Len(mixer.tree.leaves)}

\* C24: whatever blocks the ledger produces between the RPC calls of a
\* withdrawal, the root about to be handed to generate_proof is the Merkle
\* root of the leaves inserted in the local Mixer, and the leaf of the note
\* is one of those leaves.
C24_ProofAgainstLocalRoot ==
    cmd.pc = "proof" => /\ cmd.root = MixerRoot(cmd.mixer)
                        /\ ScalarOf(cmd.leaf) \in InsertedLeaves(cmd.mixer)

(***************************************************************************)
(* The stored note across a deposit and a withdrawal                       *)
(***************************************************************************)
\* the uuids of the notes whose plaintext record is stored
StoredNotes(db) == {id \in ListedIds(db, NotesIdsKey) : id \in DOMAIN db}

StoredNote(db, uuid) == DecodeNoteRaw(Bytes(db[uuid])).value

\* the notes stored with used = true
MarkedUsed(db) == {id \in StoredNotes(db) : StoredNote(db, id).used}

\* a step of DepositAsset::exec
DepositStep == StartOfProcess /\ cpc' = "deposit"

\* the deposit was not submitted or not included: client() or
\* deposit_and_watch returned an error
DepositRefused == ~cres'.ok /\ cres'.err = "deposit_and_watch"

\* C25: a note is stored as used only if the ledger accepted a deposit of
\* it; a deposit that fails to connect or to submit returns the error,
\* submits nothing more, and leaves the store as it was: the note unused
\* and its secret stored.
C25_UsedOnlyAfterAccepted ==
    /\ [](MarkedUsed(sled) \subseteq hist.accepted)
    /\ [][(DepositStep /\ DepositRefused)
             => /\ sled' = sled
                /\ origin' = origin
                /\ chain' = chain
                /\ hist' = hist]_vars

\* a deposit was refused with an unused note and its secret stored, after
\* the deposit of another note was accepted and the note marked used
C25_Witness ==
    /\ cpc = "deposit"
    /\ cres.err = "deposit_and_watch"
    /\ MarkedUsed(sled) # {}
    /\ \E id \in StoredNotes(sled) :
          /\ ~StoredNote(sled, id).used
          /\ (id \o SecretSuffix) \in DOMAIN sled

\* the records a step removes from the store
Removed == DOMAIN sled \ DOMAIN sled'

\* a step of WithdrawAsset::exec that returns an error
WithdrawFails ==
    /\ \/ StartOfProcess /\ cpc' = "withdraw"
       \/ cmd.pc # "idle"
    /\ ~cres'.ok

\* the notes import_note has returned the uuid of, not yet withdrawn
Kept == ListedIds(sled, NotesIdsKey) \ hist.withdrawn

\* C26: the plaintext record and the encrypted secret of a note are removed
\* only by the withdrawal of that note that the ledger accepted; a
\* withdrawal that fails leaves the store as it was, and every note not
\* withdrawn keeps both records, so that a later withdrawal decrypts the
\* secret that was imported.
C26_ForgottenOnlyAfterAccepted ==
    /\ [][/\ Removed # {} => /\ cmd.pc = "proof"
                             /\ Removed \subseteq {cmd.uuid, cmd.uuid \o SecretSuffix}
                             /\ cmd.uuid \in hist'.withdrawn
          /\ WithdrawFails => (sled' = sled /\ origin' = origin)]_vars
    /\ [](\A id \in Kept :
             /\ id \in DOMAIN sled
             /\ DecryptNote(sled, Some(AccountPassphrase), id).ok
             /\ \E n \in CrashNotes :
                   DecryptNote(sled, Some(AccountPassphrase), id).value = n.secret)

\* a withdrawal failed after the proof was generated, and the note is
\* selected again by a later run of the command
C26_Witness ==
    /\ cmd.pc = "proof"
    /\ hist.submitted # {}
    /\ cmd.uuid \in Kept
    /\ hist.withdrawn = {}

(***************************************************************************)
(* ExecutionContext::set_default_account                                   *)
(***************************************************************************)
\* the loop over self.accounts from the account i on: the flag cleared,
\* set on the first match, and the record written
RECURSIVE SetDefaultFrom(_, _, _, _, _)
SetDefaultFrom(st, loaded, i, alias_or_address, changed) ==
    IF i > Len(loaded)
    THEN [ok |-> TRUE, err |-> "", value |-> changed, st |-> st, accounts |-> loaded]
    ELSE LET matched == \/ loaded[i].alias = alias_or_address
                        \/ loaded[i].address = alias_or_address
             acc == [loaded[i] EXCEPT !.is_default = matched /\ ~changed]
         IN  SetDefaultFrom(StWritePlaintext(st, acc.uuid, EncodeAccountRaw(acc)),
                            [loaded EXCEPT ![i] = acc], i + 1, alias_or_address,
                            changed \/ matched)

\* ExecutionContext::set_default_account
SetDefaultAccount(st, loaded, alias_or_address) ==
    SetDefaultFrom(st, loaded, 1, alias_or_address, FALSE)

AcctAliases == Aliases \cup {<<"b", "o", "b">>}

\* what the user gives to `webb default`: an alias, an address, or neither
Handles ==
    AcctAliases \cup {keys.address : keys \in GeneratedKeys}
        \cup {<<"c", "a", "r", "o", "l">>}

\* DefaultCommand::exec: context.set_default_account(&handler)
set_default_account(alias_or_address) ==
    /\ \E r \in {SetDefaultAccount(CtxStore, accounts, alias_or_address)} :
           /\ sled' = r.st.sled
           /\ origin' = r.st.origin
           /\ accounts' = r.accounts
           /\ cres' = Returned(r)
    /\ cpc' = "set_default_account"
    /\ UNCHANGED <<secret, dpc, dkey, dres>>
    /\ UNCHANGED <<notes, uuids, handed, failed, steps, noteVars, cmdVars>>

AcctNext ==
    \/ context_set_secret(AccountPassphrase)
    \/ \E alias \in AcctAliases, keys \in GeneratedKeys, nonce \in CtxNonces :
          generate_account(alias, keys, nonce)
    \/ \E alias \in AcctAliases, restored \in Restored, nonce \in CtxNonces :
          import_account(alias, restored, nonce)
    \/ \E alias_or_address \in Handles : set_default_account(alias_or_address)
    \/ new

AcctSpec == CtxInit /\ [][AcctNext]_vars

\* the stored accounts with is_default = true
Defaults(db) == {id \in StoredAccounts(db) : StoredAccount(db, id).is_default}

\* C27: set_default_account with a handle that matches no stored account
\* returns false and leaves the is_default flag of every stored account as
\* it was.
C27_NoMatchChangesNothing ==
    [][(cpc' = "set_default_account" /\ cres'.value = FALSE)
          => Defaults(sled') = Defaults(sled)]_vars

\* the account matches the handle by its alias or by its address
Matches(db, id, alias_or_address) ==
    \/ StoredAccount(db, id).alias = alias_or_address
    \/ StoredAccount(db, id).address = alias_or_address

\* the stored accounts that match, by their place in accounts_ids
MatchingAt(db, alias_or_address) ==
    {k \in 1..Len(Listed(db, AccountIdsKey).ids) :
        /\ Listed(db, AccountIdsKey).ids[k] \in StoredAccounts(db)
        /\ Matches(db, Listed(db, AccountIdsKey).ids[k], alias_or_address)}

\* the first stored account in the order of the index that matches
FirstMatching(db, alias_or_address) ==
    Listed(db, AccountIdsKey).ids[CHOOSE k \in MatchingAt(db, alias_or_address) :
                                     \A j \in MatchingAt(db, alias_or_address) : k <= j]

\* after set_default_account returned true exactly one stored account is
\* the default one: the first in the order of the index that matches
OneDefaultAfterTrue ==
    [][(cpc' = "set_default_account" /\ cres'.value = TRUE)
          => \E alias_or_address \in Handles :
                /\ MatchingAt(sled, alias_or_address) # {}
                /\ Defaults(sled') = {FirstMatching(sled, alias_or_address)}]_vars

\* C28: after any sequence of generate_account, import_account and
\* set_default_account at most one stored account has is_default = true,
\* and after set_default_account returned true exactly one has it: the first
\* in the order of the index whose alias or address is the handle.
C28_AtMostOneDefault ==
    /\ [](Cardinality(Defaults(sled)) <= 1)
    /\ OneDefaultAfterTrue

(***************************************************************************)
(* A note imported, decrypted, marked used and forgotten                   *)
(***************************************************************************)
\* note.secret = secret: the Note decrypt_note returns, the secret read
\* put in the note parsed from the plaintext record
WithSecret(r, parsed_note) ==
    IF ~r.ok THEN r
    ELSE [ok |-> TRUE, err |-> "",
          value |-> [parsed_note.note[1] EXCEPT !.secret = r.value]]

\* ExecutionContext::decrypt_note: the Note returned
DecryptNoteWhole(db, pass, uuid) ==
    WithSecret(DecryptNote(db, pass, uuid),
               IF uuid \in DOMAIN db THEN NoteFromStr(StoredNote(db, uuid).value)
               ELSE NoResult)

ImportNext ==
    \/ \E p \in Passphrases : context_set_secret(p)
    \/ \E alias \in Aliases, n \in ImportedNotes, nonce \in CtxNonces :
          import_note(alias, n, nonce)
    \/ \E uuid \in ListedIds(sled, NotesIdsKey) : mark_note_as_used(uuid)
    \/ \E uuid \in ListedIds(sled, NotesIdsKey) : forget_note(uuid)
    \/ new

ImportSpec == CtxInit /\ [][ImportNext]_vars

\* the passphrase import_note stored the secret of the note under
ImportedUnder(uuid) == origin[uuid \o SecretSuffix].pass

\* the note import_note was given when it returned uuid
ImportedAs(uuid) ==
    CHOOSE n \in ImportedNotes : n.secret = origin[uuid \o SecretSuffix].value

\* decrypt_note of a note that was forgotten fails with 'note not found'
ForgottenNotFound ==
    \A u \in ListedIds(sled, NotesIdsKey) \ DOMAIN sled :
        \A p \in Passphrases :
            /\ ~DecryptNote(sled, Some(p), u).ok
            /\ DecryptNote(sled, Some(p), u).err = "note not found"

\* C29: decrypt_note of a uuid that import_note(alias, n) returned under the
\* passphrase p returns, under p, a note equal to n, before and after
\* mark_note_as_used; after forget_note it fails with 'note not found'.
C29_ImportDecrypt ==
    /\ \A u \in StoredNotes(sled) :
          /\ DecryptNoteWhole(sled, ImportedUnder(u), u).ok
          /\ DecryptNoteWhole(sled, ImportedUnder(u), u).value = ImportedAs(u)
    /\ ForgottenNotFound

(***************************************************************************)
(* The passphrases of the commands: every command is a run of the program  *)
(* started without a password option, which prompts for the passphrase.    *)
(***************************************************************************)
MaxRecords == 3

\* if !context.has_secret() { context.set_secret(prompted) }
Prompted(pass, password) == IF pass = None THEN Some(password) ELSE pass

\* GenerateAccount::exec and ImportAccount::exec: acct is the account
\* generated or restored
AccountExec(st, pass, loaded, alias, password, uuid, acct, nonce) ==
    SaveAccount(st, Prompted(pass, password), loaded, alias, uuid, acct, nonce)

\* ImportNote::exec and GenerateNote::exec: the passphrase is tried on the
\* seed of the default account, then the note is stored under it
NoteExec(st, pass, loaded, alias, n, password, uuid, nonce) ==
    IF ~Signer(st.sled, Prompted(pass, password), loaded).ok
    THEN CtxErr("incorrect default account password!", st)
    ELSE ImportNote(st, Prompted(pass, password), alias, n, uuid, nonce)

\* the context main builds for the command, and what the command left
RunCommand(c, r, name, password) ==
    /\ c.ok
    /\ accounts' = c.accounts
    /\ notes' = c.notes
    /\ sled' = r.st.sled
    /\ origin' = r.st.origin
    /\ cres' = Returned(r)
    /\ failed' = (failed \/ ~r.ok)
    /\ secret' = Some(password)
    /\ cpc' = name
    /\ UNCHANGED <<dpc, dkey, dres, steps, noteVars, cmdVars>>

\* webb account generate
account_generate(alias, keys, password, nonce) ==
    /\ uuids < MaxRecords
    /\ \E c \in {NewContext(LoadAccounts(sled), LoadNotes(sled))} :
          RunCommand(c, AccountExec(CtxStore, None, c.accounts, alias, password,
                                    UuidText(uuids + 1), keys, nonce),
                     "account generate", password)
    /\ uuids' = uuids + 1
    /\ handed' = handed \cup {keys.seed}

\* webb account import
account_import(alias, restored, password, nonce) ==
    /\ uuids < MaxRecords
    /\ restored.ok
    /\ \E c \in {NewContext(LoadAccounts(sled), LoadNotes(sled))} :
          RunCommand(c, AccountExec(CtxStore, None, c.accounts, alias, password,
                                    UuidText(uuids + 1), restored.keys, nonce),
                     "account import", password)
    /\ uuids' = uuids + 1
    /\ handed' = handed \cup {restored.keys.seed}

\* webb mixer import-note
mixer_import_note(alias, n, password, nonce) ==
    /\ uuids < MaxRecords
    /\ \E c \in {NewContext(LoadAccounts(sled), LoadNotes(sled))} :
          RunCommand(c, NoteExec(CtxStore, None, c.accounts, alias, n, password,
                                 UuidText(uuids + 1), nonce),
                     "mixer import-note", password)
    /\ uuids' = uuids + 1
    /\ handed' = handed \cup {n.secret}

\* webb default
default(alias_or_address) ==
    /\ \E c \in {NewContext(LoadAccounts(sled), LoadNotes(sled))} :
          \E r \in {SetDefaultAccount(CtxStore, c.accounts, alias_or_address)} :
             /\ c.ok
             /\ accounts' = r.accounts
             /\ notes' = c.notes
             /\ sled' = r.st.sled
             /\ origin' = r.st.origin
             /\ cres' = [ok |-> r.value, err |-> IF r.value THEN "" ELSE "no account",
                         value |-> <<>>]
             /\ failed' = (failed \/ ~r.value)
    /\ secret' = None
    /\ cpc' = "default"
    /\ UNCHANGED <<uuids, handed, dpc, dkey, dres, steps, noteVars, cmdVars>>

PassNext ==
    \/ \E alias \in AcctAliases, keys \in GeneratedKeys, password \in Passphrases,
          nonce \in CtxNonces : account_generate(alias, keys, password, nonce)
    \/ \E alias \in AcctAliases, restored \in Restored, password \in Passphrases,
          nonce \in CtxNonces : account_import(alias, restored, password, nonce)
    \/ \E alias \in Aliases, n \in CrashNotes, password \in Passphrases,
          nonce \in CtxNonces : mixer_import_note(alias, n, password, nonce)
    \/ \E alias_or_address \in AcctAliases : default(alias_or_address)

PassSpec == CtxInit /\ [][PassNext]_vars

\* the uuids of an index
IndexedIds(db, ids_key) ==
    {Listed(db, ids_key).ids[k] : k \in 1..Len(Listed(db, ids_key).ids)}

\* signer() of a run of the program over the store, the passphrase given
SignerOver(db, p) == Signer(db, Some(p), LoadAccounts(db).value)

\* C30: under a passphrase that decrypts the seed of the default account,
\* every encrypted record of the store decrypts, and decrypt_note of every
\* stored note succeeds.
C30_OnePassphrase ==
    \A p \in Passphrases :
        SignerOver(sled, p).ok
            => /\ \A k \in DOMAIN sled :
                     IsSecretKey(k) => DbRead(sled, Some(p), k).kind = "Ok"
               /\ \A u \in IndexedIds(sled, NotesIdsKey) :
                     u \in DOMAIN sled => DecryptNote(sled, Some(p), u).ok
=============================================================================
